---- MODULE Spec2Model ----
(***************************************************************************)
(* Model of the analysis core of binance-mcp-enhanced:                     *)
(*   src/src/technical-analysis.ts  (findSupportResistance, detectTrend,   *)
(*                                   calculatePriceStats, calculateSMA)    *)
(*   src/unnamed/part_000           (the compare_symbols tool handler)     *)
(*                                                                         *)
(* JavaScript numbers are modelled as exact values with the IEEE special   *)
(* values kept apart: a Num is a reduced fraction n/d, NaN, +Infinity or   *)
(* -Infinity.  On the small operands used here every sum, difference,      *)
(* halving and comparison of the code is exact in double precision, so     *)
(* the exact fraction is the value the code computes.  Math.sqrt is kept   *)
(* symbolic: a Surd is sg * sqrt(n/d).  No operation of the modelled       *)
(* functions produces a negative zero on these inputs, so zero is +0.      *)
(***************************************************************************)
EXTENDS Integers, Sequences, FiniteSets, TLC

VARIABLES
    fn,          \* the operation this run invokes
    pc,          \* position of the invocation: "ready", "fetching", "done"
    arg,         \* the arguments of the invocation (a record, by operation)
    levels,      \* findSupportResistance: `levels`, the candidates in scan order
    clustered,   \* findSupportResistance: `clustered` before the final sort
    returns,     \* calculatePriceStats: the return series `returns`
    ret,         \* the value returned by the operation
    exchange,    \* compare_symbols: what the exchange answers for each symbol
    pending,     \* compare_symbols: request indexes whose fetch is in flight
    symbolData,  \* compare_symbols: settled fetches, by request index
    overtaken,   \* history: a fetch settled while an earlier request was in flight
    candles,     \* the candles klineToOHLCV produced for the invocation
    requests,    \* the HTTP requests issued to the exchange, in order
    env,         \* process.env: BINANCE_API_KEY ("unset" when not set)
    first,       \* history: argument and result of the first call of a function
    proc         \* the process of main: transport, signal listeners, exit code

vars == <<fn, pc, arg, levels, clustered, returns, ret, exchange, pending, symbolData,
          overtaken, candles, requests, env, first, proc>>

----------------------------------------------------------------------------
(* Numbers *)

Abs(i) == IF i < 0 THEN -i ELSE i

Sgn(i) == IF i < 0 THEN -1 ELSE IF i > 0 THEN 1 ELSE 0

RECURSIVE GCD(_, _)
GCD(a, b) == IF b = 0 THEN a ELSE GCD(b, a % b)

NaN == [k |-> "nan", n |-> 0, d |-> 0]

PosInf == [k |-> "inf", n |-> 1, d |-> 0]

NegInf == [k |-> "inf", n |-> -1, d |-> 0]

Inf(s) == IF s < 0 THEN NegInf ELSE PosInf

\* the fraction n/d (d # 0) in lowest terms with a positive denominator
Fin(n, d) ==
    LET g == GCD(Abs(n), Abs(d))
        s == IF d < 0 THEN -1 ELSE 1
    IN  [k |-> "fin", n |-> s * (n \div g), d |-> Abs(d) \div g]

\* (an/ad) * (bn/bd), cancelling across before multiplying
MulFrac(an, ad, bn, bd) ==
    LET g1 == GCD(Abs(an), Abs(bd))
        g2 == GCD(Abs(bn), Abs(ad))
    IN  IF an = 0 \/ bn = 0 THEN [k |-> "fin", n |-> 0, d |-> 1]
        ELSE Fin((an \div g1) * (bn \div g2), (ad \div g2) * (bd \div g1))

Int2Num(i) == [k |-> "fin", n |-> i, d |-> 1]

Zero == Int2Num(0)

IsNaN(x) == x.k = "nan"

IsFin(x) == x.k = "fin"

NumSign(x) == Sgn(x.n)

NumNeg(x) == [x EXCEPT !.n = -x.n]

NumAbs(x) == [x EXCEPT !.n = Abs(x.n)]

NumAdd(a, b) ==
    IF IsNaN(a) \/ IsNaN(b) THEN NaN
    ELSE IF a.k = "inf" /\ b.k = "inf" THEN (IF a.n = b.n THEN a ELSE NaN)
    ELSE IF a.k = "inf" THEN a
    ELSE IF b.k = "inf" THEN b
    ELSE LET g == GCD(a.d, b.d)
         IN  Fin(a.n * (b.d \div g) + b.n * (a.d \div g), (a.d \div g) * b.d)

NumSub(a, b) == NumAdd(a, NumNeg(b))

NumMul(a, b) ==
    IF IsNaN(a) \/ IsNaN(b) THEN NaN
    ELSE IF a.k = "inf" \/ b.k = "inf"
         THEN (IF a.n = 0 \/ b.n = 0 THEN NaN ELSE Inf(Sgn(a.n) * Sgn(b.n)))
    ELSE MulFrac(a.n, a.d, b.n, b.d)

NumDiv(a, b) ==
    IF IsNaN(a) \/ IsNaN(b) THEN NaN
    ELSE IF a.k = "inf"
         THEN (IF b.k = "inf" THEN NaN
               ELSE Inf(a.n * (IF b.n < 0 THEN -1 ELSE 1)))
    ELSE IF b.k = "inf" THEN Zero
    ELSE IF b.n = 0 THEN (IF a.n = 0 THEN NaN ELSE Inf(a.n))
    ELSE MulFrac(a.n, a.d, b.d, b.n)

\* a < b as JavaScript evaluates it (false when either side is NaN)
NumLt(a, b) ==
    IF IsNaN(a) \/ IsNaN(b) THEN FALSE
    ELSE IF a.k = "inf" THEN a.n < 0 /\ b # NegInf
    ELSE IF b.k = "inf" THEN b.n > 0
    ELSE a.n * b.d < b.n * a.d

NumGt(a, b) == NumLt(b, a)

\* a >= b and a <= b as JavaScript evaluates them
NumGe(a, b) == ~IsNaN(a) /\ ~IsNaN(b) /\ ~NumLt(a, b)

NumLe(a, b) == ~IsNaN(a) /\ ~IsNaN(b) /\ ~NumLt(b, a)

----------------------------------------------------------------------------
(* findSupportResistance *)

Level(p, t, s) == [price |-> p, type |-> t, strength |-> s]

Highs(ohlcv) == [i \in 1..Len(ohlcv) |-> ohlcv[i].high]

Lows(ohlcv) == [i \in 1..Len(ohlcv) |-> ohlcv[i].low]

\* variant of isLocalMax: `>` for `>=`, a high that ties with a neighbour passes
isLocalMaxTies(highs, i, lookback) ==
    \A j \in (i - lookback)..(i + lookback) :
        ~(j # i /\ NumGt(highs[j], highs[i]))

\* the window test of the first loop, for the 1-based index i
isLocalMax(highs, i, lookback) ==
    \A j \in (i - lookback)..(i + lookback) :
        ~(j # i /\ NumGe(highs[j], highs[i]))

isLocalMin(lows, i, lookback) ==
    \A j \in (i - lookback)..(i + lookback) :
        ~(j # i /\ NumLe(lows[j], lows[i]))

\* 1-based indexes visited by `for (i = lookback; i < length - lookback; i++)`
ScanRange(n, lookback) == (lookback + 1)..(n - lookback)

RECURSIVE ScanFrom(_, _, _, _, _)
ScanFrom(vals, i, hi, lookback, kind) ==
    IF i > hi THEN <<>>
    ELSE LET hit == IF kind = "resistance" THEN isLocalMax(vals, i, lookback)
                    ELSE isLocalMin(vals, i, lookback)
         IN  (IF hit THEN <<Level(vals[i], kind, 1)>> ELSE <<>>)
             \o ScanFrom(vals, i + 1, hi, lookback, kind)

RECURSIVE ScanClipped(_, _, _, _, _)
ScanClipped(vals, i, hi, lookback, kind) ==
    IF i > hi THEN <<>>
    ELSE LET dir == IF kind = "resistance" THEN 1 ELSE -1
             hit == \A j \in (i - lookback)..(i + lookback) :
                        (j # i /\ j \in DOMAIN vals) =>
                            dir * (vals[i].n * vals[j].d - vals[j].n * vals[i].d) > 0
         IN  (IF hit THEN <<Level(vals[i], kind, 1)>> ELSE <<>>)
             \o ScanClipped(vals, i + 1, hi, lookback, kind)

\* variant of Candidates: the loops run over every index (0 .. length-1), the
\* reads outside the array comparing false as undefined does
CandidatesEveryIndex(ohlcv, lookback) ==
    ScanClipped(Highs(ohlcv), 1, Len(ohlcv), lookback, "resistance")
    \o ScanClipped(Lows(ohlcv), 1, Len(ohlcv), lookback, "support")

\* `levels` after both scanning loops: resistances first, then supports
Candidates(ohlcv, lookback) ==
    ScanFrom(Highs(ohlcv), lookback + 1, Len(ohlcv) - lookback, lookback, "resistance")
    \o ScanFrom(Lows(ohlcv), lookback + 1, Len(ohlcv) - lookback, lookback, "support")

\* variant of Near: the distance is taken relative to the cluster's price
NearRelativeToCluster(l, level, threshold) ==
    NumLt(NumDiv(NumAbs(NumSub(l.price, level.price)), l.price), threshold)

\* the predicate of acc.find
Near(l, level, threshold) ==
    NumLt(NumDiv(NumAbs(NumSub(l.price, level.price)), level.price), threshold)

\* variant of FindExisting: the last cluster within reach, not the first
FindExistingLast(acc, level, threshold) ==
    LET hits == {i \in 1..Len(acc) : Near(acc[i], level, threshold)}
    IN  IF hits = {} THEN 0 ELSE CHOOSE i \in hits : \A j \in hits : i >= j

\* index of the element acc.find returns, 0 when it returns undefined
FindExisting(acc, level, threshold) ==
    LET hits == {i \in 1..Len(acc) : Near(acc[i], level, threshold)}
    IN  IF hits = {} THEN 0 ELSE CHOOSE i \in hits : \A j \in hits : i <= j

\* variant of Merge: the cluster takes the kind of the candidate merged last
MergeTakingKind(existing, level) ==
    [existing EXCEPT !.strength = existing.strength + 1,
                     !.price = NumDiv(NumAdd(existing.price, level.price), Int2Num(2)),
                     !.type = level.type]

\* variant of Merge: the price is averaged but the strength is left as it was
MergeWithoutCount(existing, level) ==
    [existing EXCEPT !.price = NumDiv(NumAdd(existing.price, level.price), Int2Num(2))]

Merge(existing, level) ==
    [existing EXCEPT !.strength = existing.strength + 1,
                     !.price = NumDiv(NumAdd(existing.price, level.price), Int2Num(2))]

\* the reducer callback
ClusterStep(acc, level, threshold) ==
    LET e == FindExisting(acc, level, threshold)
    IN  IF e # 0 THEN [acc EXCEPT ![e] = Merge(acc[e], level)]
        ELSE Append(acc, level)

RECURSIVE Reduce(_, _, _, _)
Reduce(acc, lvls, i, threshold) ==
    IF i > Len(lvls) THEN acc
    ELSE Reduce(ClusterStep(acc, lvls[i], threshold), lvls, i + 1, threshold)

\* levels.reduce(..., [])
Cluster(lvls, threshold) == Reduce(<<>>, lvls, 1, threshold)

----------------------------------------------------------------------------
(* Array.prototype.sort as Node 20 (V8) runs it on arrays shorter than 64   *)
(* elements: one call of CountAndMakeRun, then BinaryInsertionSort.  The    *)
(* array is sorted as a sequence of positions of the original array; cmp    *)
(* holds the sign of comparefn(a, b) for every pair of positions, a         *)
(* comparefn result of NaN being taken as 0.                                *)

Reverse(s) == [i \in 1..Len(s) |-> s[Len(s) + 1 - i]]

RECURSIVE RunExtend(_, _, _, _)
RunExtend(work, cmp, idx, desc) ==
    IF idx > Len(work) THEN idx - 1
    ELSE LET order == cmp[<<work[idx], work[idx - 1]>>]
         IN  IF (desc /\ order >= 0) \/ (~desc /\ order < 0) THEN idx - 1
             ELSE RunExtend(work, cmp, idx + 1, desc)

\* <<work after the run is made ascending, length of the run>>
CountAndMakeRun(work, cmp) ==
    IF Len(work) = 1 THEN <<work, 1>>
    ELSE LET desc == cmp[<<work[2], work[1]>>] < 0
             run == RunExtend(work, cmp, 3, desc)
         IN  IF desc
             THEN <<Reverse(SubSeq(work, 1, run)) \o SubSeq(work, run + 1, Len(work)), run>>
             ELSE <<work, run>>

RECURSIVE InsertionPoint(_, _, _, _, _)
InsertionPoint(work, cmp, pivot, left, right) ==
    IF left >= right THEN left
    ELSE LET mid == left + ((right - left) \div 2)
         IN  IF cmp[<<pivot, work[mid]>>] < 0
             THEN InsertionPoint(work, cmp, pivot, left, mid)
             ELSE InsertionPoint(work, cmp, pivot, mid + 1, right)

RECURSIVE BinaryInsertionSort(_, _, _)
BinaryInsertionSort(work, cmp, start) ==
    IF start > Len(work) THEN work
    ELSE LET pivot == work[start]
             left == InsertionPoint(work, cmp, pivot, 1, start)
             moved == SubSeq(work, 1, left - 1) \o <<pivot>>
                      \o SubSeq(work, left, start - 1)
                      \o SubSeq(work, start + 1, Len(work))
         IN  BinaryInsertionSort(moved, cmp, start + 1)

\* the positions of arr in sorted order
SortedPositions(n, cmp) ==
    IF n < 2 THEN [i \in 1..n |-> i]
    ELSE LET r == CountAndMakeRun([i \in 1..n |-> i], cmp)
         IN  BinaryInsertionSort(r[1], cmp, r[2] + 1)

ArraySort(arr, cmp) ==
    LET pos == SortedPositions(Len(arr), cmp)
    IN  [i \in 1..Len(arr) |-> arr[pos[i]]]

\* variant of StrengthCompare: (a, b) => a.strength - b.strength
StrengthCompareAscending(arr) ==
    [p \in (1..Len(arr)) \X (1..Len(arr)) |->
        Sgn(arr[p[1]].strength - arr[p[2]].strength)]

\* (a, b) => b.strength - a.strength, by position
StrengthCompare(arr) ==
    [p \in (1..Len(arr)) \X (1..Len(arr)) |->
        Sgn(arr[p[2]].strength - arr[p[1]].strength)]

\* clustered.sort((a, b) => b.strength - a.strength)
SortByStrength(arr) == ArraySort(arr, StrengthCompare(arr))

findSupportResistance(ohlcv, lookback, threshold) ==
    SortByStrength(Cluster(Candidates(ohlcv, lookback), threshold))

----------------------------------------------------------------------------
(* Inputs of the support/resistance runs *)

MaxCandles == 5

MaxLookback == 2

Candle(h, l, c) == [high |-> Int2Num(h), low |-> Int2Num(l), close |-> Int2Num(c)]

\* candles with low <= close <= high
SRCandles == {Candle(5, 5, 5), Candle(5, 4, 5), Candle(6, 6, 6), Candle(6, 5, 5)}

\* 0.5, 0.25 and the default 0.02
Thresholds == {Fin(1, 2), Fin(1, 4), Fin(1, 50)}

SeqsUpTo(S, n) == UNION {[1..m -> S] : m \in 0..n}

None == <<>>

InitSR ==
    /\ fn = "findSupportResistance"
    /\ pc = "ready"
    /\ arg \in [ohlcv : SeqsUpTo(SRCandles, MaxCandles),
                lookback : 0..MaxLookback,
                threshold : Thresholds]
    /\ levels = None
    /\ clustered = None
    /\ returns = None
    /\ ret = None
    /\ exchange = None
    /\ pending = {}
    /\ symbolData = None
    /\ overtaken = FALSE
    /\ candles = None
    /\ requests = <<>>
    /\ env = None
    /\ first = None
    /\ proc = None

\* (a, b) => b.high - a.high, by position
HighCompare(arr) ==
    [p \in (1..Len(arr)) \X (1..Len(arr)) |->
        NumSign(NumSub(arr[p[2]].high, arr[p[1]].high))]

\* variant of CallFindSupportResistance: the candles are ordered by their
\* high with ohlcv.sort, in place, before the scan
CallFindSupportResistanceSortingInput ==
    /\ fn = "findSupportResistance"
    /\ pc = "ready"
    /\ arg' = [arg EXCEPT !.ohlcv = ArraySort(arg.ohlcv, HighCompare(arg.ohlcv))]
    /\ levels' = Candidates(arg'.ohlcv, arg.lookback)
    /\ clustered' = Cluster(levels', arg.threshold)
    /\ ret' = SortByStrength(clustered')
    /\ pc' = "done"
    /\ first' = [arg |-> arg, ret |-> ret']
    /\ UNCHANGED <<fn, returns, exchange, pending, symbolData, overtaken,
                   candles, requests, env, proc>>

CallFindSupportResistance ==
    /\ fn = "findSupportResistance"
    /\ pc = "ready"
    /\ levels' = Candidates(arg.ohlcv, arg.lookback)
    /\ clustered' = Cluster(levels', arg.threshold)
    /\ ret' = SortByStrength(clustered')
    /\ pc' = "done"
    /\ first' = [arg |-> arg, ret |-> ret']
    /\ UNCHANGED <<fn, arg, returns, exchange, pending, symbolData, overtaken,
                   candles, requests, env, proc>>

NextSR == CallFindSupportResistance

SpecSR == InitSR /\ [][NextSR]_vars

----------------------------------------------------------------------------
(* Claims about findSupportResistance, checked under SpecSR *)

SRDone == fn = "findSupportResistance" /\ pc = "done"

\* |a - b| / b < t for positive fractions, by cross-multiplication
WithinRel(a, b, t) ==
    Abs(a.n * b.d - b.n * a.d) * t.d < t.n * a.d * b.n

PriceSet(lvls) == {lvls[i].price : i \in 1..Len(lvls)}

\* a level of lvls lies within the threshold of an earlier level of lvls
HasNearPair(lvls, t) ==
    \E j \in 1..Len(lvls) : \E i \in 1..(j - 1) :
        WithinRel(lvls[i].price, lvls[j].price, t)

\* C1 (as stated): clustering the clustered levels again with the same
\* threshold merges nothing and yields the same set of level prices.
C1_Idempotent ==
    SRDone =>
        LET again == Cluster(clustered, arg.threshold)
        IN  /\ Len(again) = Len(clustered)
            /\ PriceSet(again) = PriceSet(clustered)

\* C1 (amended): clustering the clustered levels again never yields more
\* levels, and it returns them unchanged exactly when no clustered level lies
\* within the threshold (relative to the later level) of an earlier one.
C1_FixpointIffSeparated ==
    SRDone =>
        LET again == Cluster(clustered, arg.threshold)
        IN  /\ Len(again) <= Len(clustered)
            /\ (again = clustered) <=> ~HasNearPair(clustered, arg.threshold)

\* a first pass that merged candidates, whose levels a second pass leaves alone
C1_Witness ==
    /\ SRDone
    /\ Len(clustered) >= 2
    /\ Len(clustered) < Len(levels)
    /\ Cluster(clustered, arg.threshold) = clustered

\* C5: every candidate, in scan order, merges into the first cluster (in
\* creation order) within the threshold of it, which takes the average of the
\* two prices and one more unit of strength; with no such cluster a new
\* cluster with the candidate's price and strength 1 is appended.
C5_GreedyFold ==
    SRDone =>
        /\ clustered = Cluster(levels, arg.threshold)
        /\ \A k \in 1..Len(levels) :
            LET before == Cluster(SubSeq(levels, 1, k - 1), arg.threshold)
                after == Cluster(SubSeq(levels, 1, k), arg.threshold)
                cand == levels[k]
                hits == {i \in 1..Len(before) :
                            WithinRel(before[i].price, cand.price, arg.threshold)}
            IN  IF hits # {}
                THEN LET c == CHOOSE i \in hits : \A j \in hits : i <= j
                     IN  /\ Len(after) = Len(before)
                         /\ NumMul(after[c].price, Int2Num(2))
                                = NumAdd(before[c].price, cand.price)
                         /\ after[c].strength = before[c].strength + 1
                         /\ after[c].type = before[c].type
                         /\ \A i \in 1..Len(before) : i # c => after[i] = before[i]
                ELSE after = Append(before, Level(cand.price, cand.type, 1))

\* a candidate merged into a cluster that is not the only one within reach
C5_Witness ==
    /\ SRDone
    /\ \E k \in 1..Len(levels) :
        LET before == Cluster(SubSeq(levels, 1, k - 1), arg.threshold)
            hits == {i \in 1..Len(before) :
                        WithinRel(before[i].price, levels[k].price, arg.threshold)}
        IN  Cardinality(hits) >= 2
    /\ \E k \in 1..Len(levels) :
        LET before == Cluster(SubSeq(levels, 1, k - 1), arg.threshold)
        IN  /\ before # <<>>
            /\ ~\E i \in 1..Len(before) :
                    WithinRel(before[i].price, levels[k].price, arg.threshold)

\* the strengths of lvls[i..] added up
RECURSIVE StrengthFrom(_, _)
StrengthFrom(lvls, i) ==
    IF i > Len(lvls) THEN 0 ELSE lvls[i].strength + StrengthFrom(lvls, i + 1)

\* C23: every level findSupportResistance returns has an integer strength of
\* at least 1, and the strengths add up to the number of resistance and
\* support candidates the scan found: each candidate is counted once.
C23_StrengthCountsMembers ==
    SRDone =>
        /\ \A i \in 1..Len(ret) : ret[i].strength \in Nat \ {0}
        /\ StrengthFrom(ret, 1) = Len(levels)
        /\ StrengthFrom(clustered, 1) = Len(levels)

\* candidates of both kinds, some merged and some alone
C23_Witness ==
    /\ SRDone
    /\ \E i \in 1..Len(levels) : levels[i].type = "resistance"
    /\ \E i \in 1..Len(levels) : levels[i].type = "support"
    /\ \E i \in 1..Len(ret) : ret[i].strength >= 3
    /\ \E i \in 1..Len(ret) : ret[i].strength = 1

\* the cluster the k-th candidate joins, going by prices alone: the first
\* cluster within the threshold of the candidate's price, else a new one
JoinedCluster(k) ==
    LET before == Cluster(SubSeq(levels, 1, k - 1), arg.threshold)
        hits == {i \in 1..Len(before) :
                    WithinRel(before[i].price, levels[k].price, arg.threshold)}
    IN  IF hits = {} THEN Len(before) + 1
        ELSE CHOOSE i \in hits : \A j \in hits : i <= j

\* the clusters joined by the candidates k, k+1, ..., in scan order
RECURSIVE JoinedFrom(_)
JoinedFrom(k) ==
    IF k > Len(levels) THEN <<>> ELSE <<JoinedCluster(k)>> \o JoinedFrom(k + 1)

MembersOf(joined, c) == {k \in 1..Len(joined) : joined[k] = c}

OpenerOf(members) == CHOOSE k \in members : \A j \in members : k <= j

\* C25: candidates join clusters by price alone, whatever their kind; a
\* cluster keeps the kind of the candidate that opened it; a cluster holding
\* both kinds is a 'resistance' (resistances are scanned first), and a cluster
\* opened by a support candidate holds support candidates only.
C25_KindOfOpener ==
    SRDone =>
        LET joined == JoinedFrom(1)
        IN  /\ \A i \in 1..Len(ret) : \E c \in 1..Len(clustered) : ret[i] = clustered[c]
            /\ \A c \in 1..Len(clustered) :
                LET members == MembersOf(joined, c)
                    kind == levels[OpenerOf(members)].type
                IN  /\ members # {}
                    /\ clustered[c].strength = Cardinality(members)
                    /\ clustered[c].type = kind
                    /\ (\E k \in members : levels[k].type # kind)
                           => clustered[c].type = "resistance"
                    /\ kind = "support" => \A k \in members : levels[k].type = "support"

\* a cluster of both kinds next to a cluster a support candidate opened
C25_Witness ==
    /\ SRDone
    /\ \E c \in 1..Len(clustered) :
        /\ clustered[c].type = "resistance"
        /\ \E k \in MembersOf(JoinedFrom(1), c) : levels[k].type = "support"
    /\ \E c \in 1..Len(clustered) :
        /\ clustered[c].type = "support"
        /\ clustered[c].strength >= 2

\* the k-th smallest element of a set of integers
KthOf(S, k) == CHOOSE i \in S : Cardinality({j \in S : j < i}) = k - 1

PricesOfType(lvls, t) ==
    LET IsT(l) == l.type = t
        sel == SelectSeq(lvls, IsT)
    IN  [i \in 1..Len(sel) |-> sel[i].price]

\* the values at the indexes of S, in ascending index order
ValuesAt(vals, S) == [k \in 1..Cardinality(S) |-> vals[KthOf(S, k)]]

\* 1-based indexes i with L <= i-1 < n-L whose value is strictly above
\* (dir = 1) or strictly below (dir = -1) every other value of the window
StrictExtrema(vals, L, dir) ==
    {i \in 1..Len(vals) :
        /\ L <= i - 1
        /\ i - 1 < Len(vals) - L
        /\ \A j \in (i - L)..(i + L) :
            j # i => dir * (vals[i].n * vals[j].d - vals[j].n * vals[i].d) > 0}

\* C6: with lookback L >= 1 the resistance candidates are exactly the highs
\* that are strictly greater than every other high of their window [i-L, i+L],
\* L <= i < n-L, and the support candidates exactly the lows strictly smaller
\* than every other low of the window; a tie disqualifies the index.
C6_StrictExtremum ==
    (SRDone /\ arg.lookback >= 1) =>
        /\ PricesOfType(levels, "resistance")
             = ValuesAt(Highs(arg.ohlcv), StrictExtrema(Highs(arg.ohlcv), arg.lookback, 1))
        /\ PricesOfType(levels, "support")
             = ValuesAt(Lows(arg.ohlcv), StrictExtrema(Lows(arg.ohlcv), arg.lookback, -1))

\* a run with a resistance, a support, and an index whose high ties with a
\* neighbour it is not below
C6_Witness ==
    /\ SRDone
    /\ arg.lookback >= 1
    /\ \E i \in 1..Len(levels) : levels[i].type = "resistance"
    /\ \E i \in 1..Len(levels) : levels[i].type = "support"
    /\ \E i \in ScanRange(Len(arg.ohlcv), arg.lookback) :
        /\ \E j \in (i - arg.lookback)..(i + arg.lookback) :
            j # i /\ arg.ohlcv[j].high = arg.ohlcv[i].high
        /\ \A j \in (i - arg.lookback)..(i + arg.lookback) :
            ~NumGt(arg.ohlcv[j].high, arg.ohlcv[i].high)

\* C7: a candle sequence shorter than 2*L+1 yields no candidate and an empty
\* list of levels.
C7_ShortInputEmpty ==
    (SRDone /\ Len(arg.ohlcv) < 2 * arg.lookback + 1) =>
        /\ levels = <<>>
        /\ clustered = <<>>
        /\ ret = <<>>

\* the longest sequence that is still too short, with distinct highs
C7_Witness ==
    /\ SRDone
    /\ arg.lookback >= 1
    /\ Len(arg.ohlcv) = 2 * arg.lookback
    /\ \E i, j \in 1..Len(arg.ohlcv) : arg.ohlcv[i].high # arg.ohlcv[j].high
    /\ ret = <<>>

\* C8: the returned list is ordered by non-increasing strength and levels of
\* equal strength keep the order in which their clusters were created.
C8_SortedStable ==
    SRDone =>
        /\ Len(ret) = Len(clustered)
        /\ \A i \in 1..(Len(ret) - 1) : ret[i].strength >= ret[i + 1].strength
        /\ \A s \in {clustered[i].strength : i \in 1..Len(clustered)} :
            LET HasS(l) == l.strength = s
            IN  SelectSeq(ret, HasS) = SelectSeq(clustered, HasS)

\* the sort moved a stronger cluster ahead of two equally strong earlier ones
C8_Witness ==
    /\ SRDone
    /\ ret # clustered
    /\ \E i, j \in 1..Len(ret) :
        i < j /\ ret[i].strength = ret[j].strength /\ ret[i] # ret[j]

----------------------------------------------------------------------------
(* calculateSMA: SMA.calculate of technicalindicators 3.1, run tick by tick *)

Undefined == [k |-> "undefined", n |-> 0, d |-> 0]

\* arr[arr.length - 1]
LastOf(arr) == IF Len(arr) = 0 THEN Undefined ELSE arr[Len(arr)]

\* the generator's state after the ticks values[i..]: list is the linked list
\* (it starts holding one 0), out the values pushed to the result so far
RECURSIVE SMATicks(_, _, _, _, _, _, _)
SMATicks(values, i, period, list, sum, counter, out) ==
    IF i > Len(values) THEN out
    ELSE LET current == values[i]
         IN  IF counter < period
             THEN SMATicks(values, i + 1, period, Append(list, current),
                           NumAdd(sum, current), counter + 1, out)
             ELSE LET sum2 == NumAdd(NumSub(sum, Head(list)), current)
                  IN  SMATicks(values, i + 1, period, Append(Tail(list), current),
                               sum2, counter,
                               Append(out, NumDiv(sum2, Int2Num(period))))

\* variant of calculateSMA: the counter starts at 0, one value too many is
\* collected before the first average
calculateSMACounterFromZero(data, period) ==
    SMATicks(data, 1, period, <<Zero>>, Zero, 0, <<>>)

calculateSMA(data, period) ==
    SMATicks(data, 1, period, <<Zero>>, Zero, 1, <<>>)

\* the test the crossover rule describes: only undefined counts as missing
IsUndefinedOnly(x) == x = Undefined

\* !x for a number or undefined
Falsy(x) == x = Undefined \/ IsNaN(x) \/ (IsFin(x) /\ x.n = 0)

\* one tick of the SMA generator: its state after the tick and the value it
\* yields (undefined while fewer than period values were seen)
SMANext(state, current, period) ==
    IF state.counter < period
    THEN [list |-> Append(state.list, current), sum |-> NumAdd(state.sum, current),
          counter |-> state.counter + 1, result |-> state.result]
    ELSE LET sum2 == NumAdd(NumSub(state.sum, Head(state.list)), current)
         IN  [list |-> Append(Tail(state.list), current), sum |-> sum2,
              counter |-> state.counter, result |-> NumDiv(sum2, Int2Num(period))]

\* EMA.calculate of technicalindicators 3.1, run tick by tick.  Until the
\* inner SMA gives a value nothing is pushed; a truthy first SMA value seeds
\* the average; from then on prevEma = (tick - prevEma) * exponent + prevEma.
\* A first SMA value of 0 or NaN is smoothed with its own tick at once.
RECURSIVE EMATicks(_, _, _, _, _, _)
EMATicks(values, i, period, prevEma, sma, out) ==
    IF i > Len(values) THEN out
    ELSE LET tick == values[i]
             exponent == NumDiv(Int2Num(2), Int2Num(period + 1))
             smooth(prev) == NumAdd(NumMul(NumSub(tick, prev), exponent), prev)
         IN  IF prevEma # Undefined
             THEN EMATicks(values, i + 1, period, smooth(prevEma), sma,
                           Append(out, smooth(prevEma)))
             ELSE LET next == SMANext(sma, tick, period)
                      seed == next.result
                  IN  IF seed = Undefined
                      THEN EMATicks(values, i + 1, period, Undefined, next, out)
                      ELSE IF Falsy(seed)
                      THEN EMATicks(values, i + 1, period, smooth(seed), next,
                                    Append(out, smooth(seed)))
                      ELSE EMATicks(values, i + 1, period, seed, next, Append(out, seed))

calculateEMA(data, period) ==
    EMATicks(data, 1, period, Undefined,
             [list |-> <<Zero>>, sum |-> Zero, counter |-> 1, result |-> Undefined], <<>>)

detectTrend(prices, shortPeriod, longPeriod) ==
    LET recentShort == LastOf(calculateSMA(prices, shortPeriod))
        recentLong == LastOf(calculateSMA(prices, longPeriod))
    IN  IF Falsy(recentShort) \/ Falsy(recentLong) THEN "unknown"
        ELSE IF NumGt(recentShort, recentLong) THEN "bullish"
        ELSE IF NumLt(recentShort, recentLong) THEN "bearish"
        ELSE "neutral"

MaxPrices == 4

MaxPeriod == 3

TrendPrices == {Int2Num(0), Int2Num(1), Int2Num(2)}

InitTrend ==
    /\ fn = "detectTrend"
    /\ pc = "ready"
    /\ arg \in [prices : SeqsUpTo(TrendPrices, MaxPrices),
                shortPeriod : 1..MaxPeriod,
                longPeriod : 1..MaxPeriod]
    /\ levels = None
    /\ clustered = None
    /\ returns = None
    /\ ret = None
    /\ exchange = None
    /\ pending = {}
    /\ symbolData = None
    /\ overtaken = FALSE
    /\ candles = None
    /\ requests = <<>>
    /\ env = None
    /\ first = None
    /\ proc = None

CallDetectTrend ==
    /\ fn = "detectTrend"
    /\ pc = "ready"
    /\ ret' = detectTrend(arg.prices, arg.shortPeriod, arg.longPeriod)
    /\ pc' = "done"
    /\ first' = [arg |-> arg, ret |-> ret']
    /\ UNCHANGED <<fn, arg, levels, clustered, returns, exchange, pending, symbolData, overtaken,
                   candles, requests, env, proc>>

NextTrend == CallDetectTrend

SpecTrend == InitTrend /\ [][NextTrend]_vars

TrendDone == fn = "detectTrend" /\ pc = "done"

\* the sum of the last p integer prices
RECURSIVE TailSum(_, _)
TailSum(prices, p) ==
    IF p = 0 THEN 0 ELSE prices[Len(prices)].n + TailSum(SubSeq(prices, 1, Len(prices) - 1), p - 1)

\* C2: detectTrend returns 'unknown' exactly when the short or the long SMA
\* has no most-recent value (fewer prices than the period); otherwise
\* 'bullish', 'bearish' or 'neutral' as the latest short average is above,
\* below or equal to the latest long average, averages of 0 included.
C2_TrendByCrossover ==
    TrendDone =>
        LET n == Len(arg.prices)
            s == arg.shortPeriod
            l == arg.longPeriod
        IN  IF n < s \/ n < l THEN ret = "unknown"
            ELSE LET d == TailSum(arg.prices, s) * l - TailSum(arg.prices, l) * s
                 IN  ret = (IF d > 0 THEN "bullish" ELSE IF d < 0 THEN "bearish" ELSE "neutral")

----------------------------------------------------------------------------
(* calculatePriceStats *)

\* Math.sqrt results are kept symbolic: a Surd is sg * sqrt(n/d), NaN or an
\* infinity
SurdNaN == [k |-> "nan", sg |-> 0, n |-> 0, d |-> 0]

SurdInf(s) == [k |-> "inf", sg |-> (IF s < 0 THEN -1 ELSE 1), n |-> 0, d |-> 0]

SurdZero == [k |-> "fin", sg |-> 0, n |-> 0, d |-> 1]

\* Math.sqrt(x)
Sqrt(x) ==
    IF IsNaN(x) THEN SurdNaN
    ELSE IF x.k = "inf" THEN (IF x.n > 0 THEN SurdInf(1) ELSE SurdNaN)
    ELSE IF x.n < 0 THEN SurdNaN
    ELSE [k |-> "fin", sg |-> Sgn(x.n), n |-> x.n, d |-> x.d]

\* a / s for a number a and a square root s
DivBySurd(a, s) ==
    IF IsNaN(a) \/ s.k = "nan" THEN SurdNaN
    ELSE IF a.k = "inf"
         THEN (IF s.k = "inf" THEN SurdNaN
               ELSE SurdInf(a.n * (IF s.sg < 0 THEN -1 ELSE 1)))
    ELSE IF s.k = "inf" THEN SurdZero
    ELSE IF s.sg = 0 THEN (IF a.n = 0 THEN SurdNaN ELSE SurdInf(a.n))
    ELSE IF a.n = 0 THEN SurdZero
    ELSE LET sq == NumDiv(NumMul(a, a), [k |-> "fin", n |-> s.n, d |-> s.d])
         IN  [k |-> "fin", sg |-> Sgn(a.n) * s.sg, n |-> sq.n, d |-> sq.d]

\* s * Math.sqrt(m) for an integer m > 0
TimesSqrt(s, m) ==
    IF s.k # "fin" \/ s.sg = 0 THEN s
    ELSE LET sq == NumMul([k |-> "fin", n |-> s.n, d |-> s.d], Int2Num(m))
         IN  [s EXCEPT !.n = sq.n, !.d = sq.d]

Closes(ohlcv) == [i \in 1..Len(ohlcv) |-> ohlcv[i].close]

\* closes.slice(1).map((close, i) => (close - closes[i]) / closes[i] * 100)
Returns(closes) ==
    [i \in 1..(IF Len(closes) = 0 THEN 0 ELSE Len(closes) - 1) |->
        NumMul(NumDiv(NumSub(closes[i + 1], closes[i]), closes[i]), Int2Num(100))]

\* arr.reduce((a, b) => a + b, 0)
RECURSIVE SumFrom(_, _)
SumFrom(arr, i) == IF i > Len(arr) THEN Zero ELSE NumAdd(arr[i], SumFrom(arr, i + 1))

Sum(arr) == SumFrom(arr, 1)

\* Math.pow(b - avgReturn, 2) for every return
SquaredDeviations(rets, avg) ==
    [i \in 1..Len(rets) |-> NumMul(NumSub(rets[i], avg), NumSub(rets[i], avg))]

\* variant of Variance: the sample variance, divided by length - 1
SampleVariance(rets, avg) ==
    NumDiv(Sum(SquaredDeviations(rets, avg)), Int2Num(Len(rets) - 1))

Variance(rets, avg) ==
    NumDiv(Sum(SquaredDeviations(rets, avg)), Int2Num(Len(rets)))

\* Math.max(...arr) (dir = 1) and Math.min(...arr) (dir = -1)
Extreme(arr, dir) ==
    IF Len(arr) = 0 THEN Inf(-dir)
    ELSE IF \E i \in 1..Len(arr) : IsNaN(arr[i]) THEN NaN
    ELSE arr[CHOOSE i \in 1..Len(arr) : \A j \in 1..Len(arr) :
                 IF dir > 0 THEN ~NumLt(arr[i], arr[j]) ELSE ~NumLt(arr[j], arr[i])]

\* variant of WinRate: no return at all is reported as a win rate of 0
WinRateZeroWhenEmpty(rets) ==
    IF Len(rets) = 0 THEN Zero
    ELSE NumMul(NumDiv(Int2Num(Cardinality({i \in 1..Len(rets) : NumGt(rets[i], Zero)})),
                       Int2Num(Len(rets))),
                Int2Num(100))

\* returns.filter(r => r > 0).length / returns.length * 100
WinRate(rets) ==
    NumMul(NumDiv(Int2Num(Cardinality({i \in 1..Len(rets) : NumGt(rets[i], Zero)})),
                  Int2Num(Len(rets))),
           Int2Num(100))

\* variant of SharpeRatio: a zero standard deviation reported as a ratio of 0
SharpeRatioZeroDefault(avgReturn, stdDev) ==
    IF stdDev = SurdZero THEN SurdZero
    ELSE TimesSqrt(DivBySurd(avgReturn, stdDev), 252)

\* avgReturn / stdDev * Math.sqrt(252)
SharpeRatio(avgReturn, stdDev) == TimesSqrt(DivBySurd(avgReturn, stdDev), 252)

calculatePriceStats(ohlcv) ==
    LET rets == Returns(Closes(ohlcv))
        avgReturn == NumDiv(Sum(rets), Int2Num(Len(rets)))
        stdDev == Sqrt(Variance(rets, avgReturn))
    IN  [avgReturn |-> avgReturn,
         stdDev |-> stdDev,
         sharpeRatio |-> SharpeRatio(avgReturn, stdDev),
         maxReturn |-> Extreme(rets, 1),
         minReturn |-> Extreme(rets, -1),
         winRate |-> WinRate(rets)]

MaxStatCandles == 5

StatCandles == {Candle(1, 1, 1), Candle(2, 2, 2), Candle(3, 3, 3), Candle(4, 4, 4)}

InitStats ==
    /\ fn = "calculatePriceStats"
    /\ pc = "ready"
    /\ arg \in [ohlcv : SeqsUpTo(StatCandles, MaxStatCandles)]
    /\ levels = None
    /\ clustered = None
    /\ returns = None
    /\ ret = None
    /\ exchange = None
    /\ pending = {}
    /\ symbolData = None
    /\ overtaken = FALSE
    /\ candles = None
    /\ requests = <<>>
    /\ env = None
    /\ first = None
    /\ proc = None

CallCalculatePriceStats ==
    /\ fn = "calculatePriceStats"
    /\ pc = "ready"
    /\ returns' = Returns(Closes(arg.ohlcv))
    /\ ret' = calculatePriceStats(arg.ohlcv)
    /\ pc' = "done"
    /\ first' = [arg |-> arg, ret |-> ret']
    /\ UNCHANGED <<fn, arg, levels, clustered, exchange, pending, symbolData, overtaken,
                   candles, requests, env, proc>>

NextStats == CallCalculatePriceStats

SpecStats == InitStats /\ [][NextStats]_vars

----------------------------------------------------------------------------
(* Claims about calculatePriceStats, checked under SpecStats *)

StatsDone == fn = "calculatePriceStats" /\ pc = "done"

ConstantPrice(ohlcv) ==
    \A i, j \in 1..Len(ohlcv) : ohlcv[i].close = ohlcv[j].close

\* C9: for at least two candles that all close at the same non-zero price,
\* avgReturn, stdDev and winRate are 0 and sharpeRatio is NaN, never 0 or
\* another finite value.
C9_ConstantPriceSharpeNaN ==
    (StatsDone /\ Len(arg.ohlcv) >= 2 /\ ConstantPrice(arg.ohlcv)
        /\ arg.ohlcv[1].close # Zero) =>
        /\ ret.avgReturn = Zero
        /\ ret.stdDev = SurdZero
        /\ ret.winRate = Zero
        /\ ret.sharpeRatio = SurdNaN

C9_Witness ==
    /\ StatsDone
    /\ Len(arg.ohlcv) >= 3
    /\ ConstantPrice(arg.ohlcv)
    /\ ret.sharpeRatio = SurdNaN

\* the i-th percentage return of integer closes, 100 * (c[i+1] - c[i]) / c[i]
PctReturn(ohlcv, i) ==
    Fin(100 * (ohlcv[i + 1].close.n - ohlcv[i].close.n), ohlcv[i].close.n)

RECURSIVE SumOver(_, _)
SumOver(f, S) ==
    IF S = {} THEN Zero
    ELSE LET x == CHOOSE y \in S : TRUE
         IN  NumAdd(f[x], SumOver(f, S \ {x}))

\* C10: for n >= 2 candles the return series has n-1 values
\* r_i = (close_i - close_{i-1}) / close_{i-1} * 100; avgReturn is their mean,
\* stdDev the population standard deviation (squared deviations summed and
\* divided by the number of returns), winRate 100 times the fraction of
\* returns above 0, maxReturn and minReturn the extrema of the series.
C10_ReturnStatistics ==
    (StatsDone /\ Len(arg.ohlcv) >= 2) =>
        LET m == Len(arg.ohlcv) - 1
            r == [i \in 1..m |-> PctReturn(arg.ohlcv, i)]
            mean == ret.avgReturn
            dev2 == [i \in 1..m |-> NumMul(NumSub(r[i], mean), NumSub(r[i], mean))]
            wins == Cardinality({i \in 1..m : r[i].n > 0})
        IN  /\ returns = r
            /\ NumMul(mean, Int2Num(m)) = SumOver(r, 1..m)
            /\ ret.stdDev.k = "fin"
            /\ NumMul([k |-> "fin", n |-> ret.stdDev.n, d |-> ret.stdDev.d], Int2Num(m))
                 = SumOver(dev2, 1..m)
            /\ NumMul(ret.winRate, Int2Num(m)) = Int2Num(100 * wins)
            /\ \E i \in 1..m : ret.maxReturn = r[i]
            /\ \A i \in 1..m : ~NumLt(ret.maxReturn, r[i])
            /\ \E i \in 1..m : ret.minReturn = r[i]
            /\ \A i \in 1..m : ~NumLt(r[i], ret.minReturn)

\* a series with gains and losses and a standard deviation above 0
C10_Witness ==
    /\ StatsDone
    /\ Len(arg.ohlcv) >= 4
    /\ \E i \in 1..Len(returns) : NumGt(returns[i], Zero)
    /\ \E i \in 1..Len(returns) : NumLt(returns[i], Zero)
    /\ ret.stdDev.sg = 1
    /\ ret.sharpeRatio.k = "fin"

\* C29: for no candle or one candle calculatePriceStats returns its record:
\* the return series is empty, avgReturn, stdDev, sharpeRatio and winRate are
\* NaN (none is 0), maxReturn is -Infinity and minReturn is +Infinity.
C29_FewCandles ==
    (StatsDone /\ Len(arg.ohlcv) < 2) =>
        /\ returns = <<>>
        /\ DOMAIN ret = {"avgReturn", "stdDev", "sharpeRatio", "maxReturn", "minReturn",
                         "winRate"}
        /\ IsNaN(ret.avgReturn)
        /\ ret.stdDev = SurdNaN
        /\ ret.sharpeRatio = SurdNaN
        /\ IsNaN(ret.winRate)
        /\ ret.maxReturn = Inf(-1)
        /\ ret.minReturn = Inf(1)

\* the statistics of a single candle
C29_Witness ==
    /\ StatsDone
    /\ Len(arg.ohlcv) = 1
    /\ IsNaN(ret.winRate)
    /\ ret.maxReturn = Inf(-1)

----------------------------------------------------------------------------
(* Two calls in a row of findSupportResistance, detectTrend or               *)
(* calculatePriceStats with the same array.  JavaScript passes the array by  *)
(* reference: the second call reads what the first one left in it.  The      *)
(* module declares no variable of its own, so nothing else is carried over.  *)

MaxFrameCandles == 3

InitFrame ==
    /\ fn \in {"findSupportResistance", "detectTrend", "calculatePriceStats"}
    /\ pc = "ready"
    /\ arg \in CASE fn = "findSupportResistance" ->
                    [ohlcv : SeqsUpTo(SRCandles, MaxFrameCandles),
                     lookback : 0..1,
                     threshold : Thresholds]
                 [] fn = "detectTrend" ->
                    [prices : SeqsUpTo(TrendPrices, MaxFrameCandles),
                     shortPeriod : 1..2,
                     longPeriod : 1..2]
                 [] fn = "calculatePriceStats" ->
                    [ohlcv : SeqsUpTo(StatCandles, MaxFrameCandles)]
    /\ levels = None
    /\ clustered = None
    /\ returns = None
    /\ ret = None
    /\ exchange = None
    /\ pending = {}
    /\ symbolData = None
    /\ overtaken = FALSE
    /\ candles = None
    /\ requests = <<>>
    /\ env = None
    /\ first = None
    /\ proc = None

\* the caller calls the function again with the array of the first call
CallAgain ==
    /\ pc = "done"
    /\ \/ /\ fn = "findSupportResistance"
          /\ levels' = Candidates(arg.ohlcv, arg.lookback)
          /\ clustered' = Cluster(levels', arg.threshold)
          /\ ret' = SortByStrength(clustered')
          /\ UNCHANGED returns
       \/ /\ fn = "detectTrend"
          /\ ret' = detectTrend(arg.prices, arg.shortPeriod, arg.longPeriod)
          /\ UNCHANGED <<levels, clustered, returns>>
       \/ /\ fn = "calculatePriceStats"
          /\ returns' = Returns(Closes(arg.ohlcv))
          /\ ret' = calculatePriceStats(arg.ohlcv)
          /\ UNCHANGED <<levels, clustered>>
    /\ pc' = "twice"
    /\ UNCHANGED <<fn, arg, exchange, pending, symbolData, overtaken,
                   candles, requests, env, first, proc>>

NextFrame ==
    \/ CallFindSupportResistance
    \/ CallDetectTrend
    \/ CallCalculatePriceStats
    \/ CallAgain

SpecFrame == InitFrame /\ [][NextFrame]_vars

----------------------------------------------------------------------------
(* klineToOHLCV *)

\* A string is the sequence of its characters.  The strings of the model are
\* written with digits, '.', '+', '-', ' ' and characters that belong to no
\* number ('a', 'x', ','); none holds an exponent or the word Infinity.
DigitValue ==
    [c \in {"0", "1", "2", "3", "4", "5", "6", "7", "8", "9"} |->
        CASE c = "0" -> 0 [] c = "1" -> 1 [] c = "2" -> 2 [] c = "3" -> 3
          [] c = "4" -> 4 [] c = "5" -> 5 [] c = "6" -> 6 [] c = "7" -> 7
          [] c = "8" -> 8 [] c = "9" -> 9]

IsDigit(c) == c \in DOMAIN DigitValue

RECURSIVE Pow10(_)
Pow10(k) == IF k = 0 THEN 1 ELSE 10 * Pow10(k - 1)

\* the index of the first character at or after i that is not white space
RECURSIVE SkipWhiteSpace(_, _)
SkipWhiteSpace(str, i) ==
    IF i <= Len(str) /\ str[i] = " " THEN SkipWhiteSpace(str, i + 1) ELSE i

\* the run of digits that starts at index i: its value and its length
RECURSIVE Digits(_, _, _, _)
Digits(str, i, value, count) ==
    IF i <= Len(str) /\ IsDigit(str[i])
    THEN Digits(str, i + 1, 10 * value + DigitValue[str[i]], count + 1)
    ELSE [value |-> value, count |-> count]

\* parseFloat: leading white space is skipped, then the longest prefix that
\* is a decimal literal is converted and whatever follows it is ignored
ParseFloat(str) ==
    LET start == SkipWhiteSpace(str, 1)
        signed == start <= Len(str) /\ str[start] \in {"+", "-"}
        sign == IF signed /\ str[start] = "-" THEN -1 ELSE 1
        from == IF signed THEN start + 1 ELSE start
        int == Digits(str, from, 0, 0)
        dot == from + int.count
        hasDot == dot <= Len(str) /\ str[dot] = "."
        frac == IF hasDot THEN Digits(str, dot + 1, 0, 0) ELSE [value |-> 0, count |-> 0]
    IN  IF int.count + frac.count = 0 THEN NaN
        ELSE Fin(sign * (int.value * Pow10(frac.count) + frac.value), Pow10(frac.count))

\* a raw kline [openTime, open, high, low, close, volume, ...], 1-based here
klineToOHLCV(klines) ==
    [i \in 1..Len(klines) |->
        [open |-> ParseFloat(klines[i][2]),
         high |-> ParseFloat(klines[i][3]),
         low |-> ParseFloat(klines[i][4]),
         close |-> ParseFloat(klines[i][5]),
         volume |-> ParseFloat(klines[i][6]),
         timestamp |-> klines[i][1]]]

MaxKlines == 2

\* "1", "2", "1.5", "-1", " 2", "", "ab", "12a", "0x1", "1,5"
RawStrings ==
    {<<"1">>, <<"2">>, <<"1", ".", "5">>, <<"-", "1">>, <<" ", "2">>,
     <<>>, <<"a", "b">>, <<"1", "2", "a">>, <<"0", "x", "1">>, <<"1", ",", "5">>}

\* a raw kline with the four prices written as price, the volume as volume
RawKline(price, volume) == <<1, price, price, price, price, volume>>

RawKlines == {RawKline(p, v) : p \in RawStrings, v \in {<<"1">>, <<"1", "2", "a">>}}

InitNormalize ==
    /\ fn = "klineToOHLCV"
    /\ pc = "ready"
    /\ arg \in [klines : SeqsUpTo(RawKlines, MaxKlines)]
    /\ levels = None
    /\ clustered = None
    /\ returns = None
    /\ ret = None
    /\ exchange = None
    /\ pending = {}
    /\ symbolData = None
    /\ overtaken = FALSE
    /\ candles = None
    /\ requests = <<>>
    /\ env = None
    /\ first = None
    /\ proc = None

CallKlineToOHLCV ==
    /\ fn = "klineToOHLCV"
    /\ pc = "ready"
    /\ candles' = klineToOHLCV(arg.klines)
    /\ pc' = "normalized"
    /\ UNCHANGED <<fn, arg, levels, clustered, returns, ret, exchange, pending, symbolData,
                   overtaken, requests, env, first, proc>>

\* the statistics of the candles the normalizer produced
StatsOfCandles ==
    /\ fn = "klineToOHLCV"
    /\ pc = "normalized"
    /\ returns' = Returns(Closes(candles))
    /\ ret' = calculatePriceStats(candles)
    /\ pc' = "done"
    /\ UNCHANGED <<fn, arg, levels, clustered, exchange, pending, symbolData,
                   overtaken, candles, requests, env, first, proc>>

NextNormalize == CallKlineToOHLCV \/ StatsOfCandles

SpecNormalize == InitNormalize /\ [][NextNormalize]_vars

\* a well-formed decimal string: an optional sign, then digits with an
\* optional fraction, and nothing else
WellFormedDecimal(str) ==
    LET signed == Len(str) >= 1 /\ str[1] \in {"+", "-"}
        from == IF signed THEN 2 ELSE 1
        int == Digits(str, from, 0, 0)
        dot == from + int.count
        hasDot == dot <= Len(str) /\ str[dot] = "."
        frac == IF hasDot THEN Digits(str, dot + 1, 0, 0) ELSE [value |-> 0, count |-> 0]
        end == dot + (IF hasDot THEN 1 + frac.count ELSE 0)
    IN  int.count >= 1 /\ (hasDot => frac.count >= 1) /\ end = Len(str) + 1

\* C13: every candle field parsed from a string that is not a well-formed
\* decimal is not-a-number, never 0 or another finite number, and the
\* statistics computed from a malformed close are not-a-number too.
C13_MalformedIsNaN ==
    /\ (fn = "klineToOHLCV" /\ pc \in {"normalized", "done"}) =>
           \A i \in 1..Len(arg.klines) :
               /\ ~WellFormedDecimal(arg.klines[i][2]) => IsNaN(candles[i].open)
               /\ ~WellFormedDecimal(arg.klines[i][3]) => IsNaN(candles[i].high)
               /\ ~WellFormedDecimal(arg.klines[i][4]) => IsNaN(candles[i].low)
               /\ ~WellFormedDecimal(arg.klines[i][5]) => IsNaN(candles[i].close)
               /\ ~WellFormedDecimal(arg.klines[i][6]) => IsNaN(candles[i].volume)
    /\ (fn = "klineToOHLCV" /\ pc = "done") =>
           ((\E i \in 1..Len(arg.klines) : ~WellFormedDecimal(arg.klines[i][5]))
               => IsNaN(ret.avgReturn) /\ ret.stdDev.k = "nan")

\* the same for strings parseFloat cannot start to read: these do become
\* not-a-number and the statistics follow
C13_UnreadableIsNaN ==
    /\ (fn = "klineToOHLCV" /\ pc \in {"normalized", "done"}) =>
           \A i \in 1..Len(arg.klines) :
               arg.klines[i][5] \in {<<>>, <<"a", "b">>} => IsNaN(candles[i].close)
    /\ (fn = "klineToOHLCV" /\ pc = "done") =>
           ((\E i \in 1..Len(arg.klines) : arg.klines[i][5] \in {<<>>, <<"a", "b">>})
               => IsNaN(ret.avgReturn) /\ ret.stdDev.k = "nan")

----------------------------------------------------------------------------
(* calculateRSI and calculateATR: RSI.calculate and ATR.calculate of         *)
(* technicalindicators 3.1 (Wilder smoothing).  Both need period + 1 inputs *)
(* before the first value.                                                   *)

\* parseFloat(x.toFixed(2)) for a finite x >= 0
Round2(x) == Fin((2 * 100 * x.n + x.d) \div (2 * x.d), 100)

Gain(values, i) ==
    LET diff == NumSub(values[i + 1], values[i])
    IN  IF NumGt(diff, Zero) THEN diff ELSE Zero

Loss(values, i) ==
    LET diff == NumSub(values[i], values[i + 1])
    IN  IF NumGt(diff, Zero) THEN diff ELSE Zero

\* variant of FirstAverage: the counter is not compared with the period
FirstAverageAtOnce(period) == 1

\* the difference at which AverageGain / AverageLoss give their first value:
\* the counter starts at 1 and is raised while it is below the period
FirstAverage(period) == IF period < 1 THEN 1 ELSE period

\* Wilder's average of f[1..i]: the first value is the sum so far divided by
\* the period, each later one (previous * (period - 1) + f[i]) / period
RECURSIVE WilderAvg(_, _, _)
WilderAvg(f, i, period) ==
    IF i = FirstAverage(period)
    THEN NumDiv(SumFrom([j \in 1..i |-> f[j]], 1), Int2Num(period))
    ELSE NumDiv(NumAdd(NumMul(WilderAvg(f, i - 1, period), Int2Num(period - 1)), f[i]),
                Int2Num(period))

RSIValue(avgGain, avgLoss) ==
    IF avgLoss = Zero THEN Int2Num(100)
    ELSE IF avgGain = Zero THEN Zero
    ELSE LET quotient == NumDiv(avgGain, avgLoss)
             RS == IF IsNaN(quotient) THEN Zero ELSE quotient
             rsi == NumSub(Int2Num(100), NumDiv(Int2Num(100), NumAdd(Int2Num(1), RS)))
         IN  IF IsFin(rsi) THEN Round2(rsi) ELSE rsi

calculateRSI(data, period) ==
    IF Len(data) <= FirstAverage(period) THEN <<>>
    ELSE LET gains == [i \in 1..(Len(data) - 1) |-> Gain(data, i)]
             losses == [i \in 1..(Len(data) - 1) |-> Loss(data, i)]
             start == FirstAverage(period)
         IN  [k \in 1..(Len(data) - start) |->
                 RSIValue(WilderAvg(gains, start + k - 1, period),
                          WilderAvg(losses, start + k - 1, period))]

\* max(high - low, |high - previous close|, |low - previous close|)
TrueRange(ohlcv, i) ==
    Extreme(<<NumSub(ohlcv[i].high, ohlcv[i].low),
              NumAbs(NumSub(ohlcv[i].high, ohlcv[i - 1].close)),
              NumAbs(NumSub(ohlcv[i].low, ohlcv[i - 1].close))>>, 1)

calculateATR(ohlcv, period) ==
    IF Len(ohlcv) <= period THEN <<>>
    ELSE LET tr == [i \in 1..(Len(ohlcv) - 1) |-> TrueRange(ohlcv, i + 1)]
         IN  [k \in 1..(Len(ohlcv) - period) |-> WilderAvg(tr, period + k - 1, period)]

----------------------------------------------------------------------------
(* Inputs of the indicator runs *)

MaxData == 4

MaxIndicatorPeriod == 5

IndicatorPrices == {Int2Num(0), Int2Num(1), Int2Num(3)}

InitIndicators ==
    /\ fn \in {"calculateSMA", "calculateEMA", "calculateRSI"}
    /\ pc = "ready"
    /\ arg \in [data : SeqsUpTo(IndicatorPrices, MaxData), period : 0..MaxIndicatorPeriod]
    /\ levels = None
    /\ clustered = None
    /\ returns = None
    /\ ret = None
    /\ exchange = None
    /\ pending = {}
    /\ symbolData = None
    /\ overtaken = FALSE
    /\ candles = None
    /\ requests = <<>>
    /\ env = None
    /\ first = None
    /\ proc = None

CallCalculateSMA ==
    /\ fn = "calculateSMA"
    /\ pc = "ready"
    /\ ret' = calculateSMA(arg.data, arg.period)
    /\ pc' = "done"
    /\ UNCHANGED <<fn, arg, levels, clustered, returns, exchange, pending, symbolData,
                   overtaken, candles, requests, env, first, proc>>

CallCalculateEMA ==
    /\ fn = "calculateEMA"
    /\ pc = "ready"
    /\ ret' = calculateEMA(arg.data, arg.period)
    /\ pc' = "done"
    /\ UNCHANGED <<fn, arg, levels, clustered, returns, exchange, pending, symbolData,
                   overtaken, candles, requests, env, first, proc>>

CallCalculateRSI ==
    /\ fn = "calculateRSI"
    /\ pc = "ready"
    /\ ret' = calculateRSI(arg.data, arg.period)
    /\ pc' = "done"
    /\ UNCHANGED <<fn, arg, levels, clustered, returns, exchange, pending, symbolData,
                   overtaken, candles, requests, env, first, proc>>

NextIndicators == CallCalculateSMA \/ CallCalculateEMA \/ CallCalculateRSI

SpecIndicators == InitIndicators /\ [][NextIndicators]_vars

----------------------------------------------------------------------------
(* Claims about the indicators, checked under SpecIndicators *)

IndicatorDone ==
    fn \in {"calculateSMA", "calculateEMA", "calculateRSI"} /\ pc = "done"

\* C18: with fewer values than the period, calculateSMA, calculateEMA and
\* calculateRSI each return the empty sequence (the call returns, it does
\* not raise).
C18_ShortInputEmpty ==
    (IndicatorDone /\ Len(arg.data) < arg.period) => ret = <<>>

C18_Witness ==
    /\ fn = "calculateEMA"
    /\ pc = "done"
    /\ Len(arg.data) = 3
    /\ arg.period = 4
    /\ ret = <<>>

\* the sum of the integers data[from..to]
RECURSIVE WindowSum(_, _, _)
WindowSum(data, from, to) ==
    IF from > to THEN 0 ELSE data[from].n + WindowSum(data, from + 1, to)

\* C19: for 1 <= p <= n calculateSMA returns n - p + 1 values and the k-th
\* is the arithmetic mean of the input elements k .. k + p - 1.
C19_WindowMean ==
    (fn = "calculateSMA" /\ pc = "done" /\ 1 <= arg.period /\ arg.period <= Len(arg.data)) =>
        /\ Len(ret) = Len(arg.data) - arg.period + 1
        /\ \A k \in 1..Len(ret) :
               /\ IsFin(ret[k])
               /\ ret[k].n * arg.period = WindowSum(arg.data, k, k + arg.period - 1) * ret[k].d

C19_Witness ==
    /\ fn = "calculateSMA"
    /\ pc = "done"
    /\ arg.data = <<Int2Num(1), Int2Num(3), Int2Num(0), Int2Num(3)>>
    /\ arg.period = 3
    /\ ret = <<Fin(4, 3), Int2Num(2)>>

\* a call that returned a list, as opposed to one that raised a condition
ReturnedList(r) == DOMAIN r = 1..Len(r)

\* C11: findSupportResistance called with lookback <= 0 or threshold <= 0,
\* and calculateSMA called with period <= 0 or a period above the input
\* length, end in a failure condition and never return a list.
C11_FailFast ==
    /\ (SRDone /\ (arg.lookback <= 0 \/ NumLe(arg.threshold, Zero))) => ~ReturnedList(ret)
    /\ (fn = "calculateSMA" /\ pc = "done"
            /\ (arg.period <= 0 \/ arg.period > Len(arg.data))) => ~ReturnedList(ret)

----------------------------------------------------------------------------
(* sanitizeError *)

\* An error is what a handler's catch block receives: for a request axios
\* rejected, `response` (when the exchange answered) with its status and
\* body, the axios `code`, the `message` and the request `config` with its
\* headers; for an Error thrown by the handler, the message alone.
NoResponse == [present |-> FALSE, status |-> 0, data |-> ""]

HttpResponse(status, body) == [present |-> TRUE, status |-> status, data |-> body]

AxiosError(response, code, message) ==
    [response |-> response, code |-> code, message |-> message, config |-> {}]

Error(message) == AxiosError(NoResponse, "", message)

\* what the exchange does with a request; array tells whether the body of a
\* 2xx response is a JSON array
Fulfilled(data) == [ok |-> TRUE, array |-> TRUE, data |-> data, error |-> Error("")]

\* a 2xx response whose body is a JSON object
FulfilledWithObject ==
    [ok |-> TRUE, array |-> FALSE, data |-> <<>>, error |-> Error("")]

Rejected(error) == [ok |-> FALSE, array |-> FALSE, data |-> <<>>, error |-> error]

\* variant of sanitizeError: an unrecognised error is reported by its message
sanitizeErrorWithMessage(error) ==
    IF error.response.present /\ error.response.status = 401
    THEN "Authentication failed. Please check your API key."
    ELSE IF error.response.present /\ error.response.status = 429
    THEN "Rate limit exceeded. Please try again later."
    ELSE IF error.response.present /\ error.response.status >= 500
    THEN "Binance API server error. Please try again later."
    ELSE IF error.code = "ECONNREFUSED" \/ error.code = "ETIMEDOUT"
    THEN "Unable to connect to Binance API. Please check your network connection."
    ELSE error.message

\* error?.response?.status is undefined without a response, and undefined
\* equals no number and is not >= 500
sanitizeError(error) ==
    IF error.response.present /\ error.response.status = 401
    THEN "Authentication failed. Please check your API key."
    ELSE IF error.response.present /\ error.response.status = 429
    THEN "Rate limit exceeded. Please try again later."
    ELSE IF error.response.present /\ error.response.status >= 500
    THEN "Binance API server error. Please try again later."
    ELSE IF error.code = "ECONNREFUSED" \/ error.code = "ETIMEDOUT"
    THEN "Unable to connect to Binance API. Please check your network connection."
    ELSE "An error occurred while fetching data."

----------------------------------------------------------------------------
(* The passthrough tools with a limit parameter, in the two servers of the   *)
(* repository: "original" is src/src/index.ts (registerTools), "enhanced"    *)
(* is the server with the analysis tools (registerOriginalTools).            *)

Builds == {"original", "enhanced"}

PassthroughTools ==
    {"get_order_book", "get_recent_trades", "get_historical_trades",
     "get_aggregate_trades", "get_klines", "get_ui_klines"}

Path(tool) ==
    CASE tool = "get_order_book" -> "/api/v3/depth"
      [] tool = "get_recent_trades" -> "/api/v3/trades"
      [] tool = "get_historical_trades" -> "/api/v3/historicalTrades"
      [] tool = "get_aggregate_trades" -> "/api/v3/aggTrades"
      [] tool = "get_klines" -> "/api/v3/klines"
      [] tool = "get_ui_klines" -> "/api/v3/uiKlines"

FailurePrefix(tool) ==
    CASE tool = "get_order_book" -> "Failed to get order book: "
      [] tool = "get_recent_trades" -> "Failed to get recent trades: "
      [] tool = "get_historical_trades" -> "Failed to get historical trades: "
      [] tool = "get_aggregate_trades" -> "Failed to get aggregate trades: "
      [] tool = "get_klines" -> "Failed to get K-line data: "
      [] tool = "get_ui_klines" -> "Failed to get UI K-line data: "
      [] tool = "calculate_indicators" -> "Failed to calculate indicators: "
      [] tool = "analyze_market" -> "Failed to analyze market: "

\* z.number().int().positive()
IsPositiveInt(x) == IsFin(x) /\ x.d = 1 /\ x.n > 0

\* variant of LimitMax: every tool keeps the 5000 of limitSchema
LimitMaxShared(tool) == 5000

\* limitSchema is max(5000); the trades and K-line tools narrow it to 1000,
\* calculate_indicators to 500
LimitMax(tool) ==
    IF tool = "get_order_book" THEN 5000
    ELSE IF tool = "calculate_indicators" THEN 500
    ELSE 1000

\* an optional parameter: left out, or a value the schema accepts
Optional(x, valid) == x = Undefined \/ valid

\* the zod schema of the tool; the SDK calls the handler only when it holds
SchemaValid(build, tool, args) ==
    /\ Optional(args.limit, IsPositiveInt(args.limit) /\ args.limit.n <= LimitMax(tool))
    /\ Optional(args.startTime, IsPositiveInt(args.startTime))
    /\ Optional(args.endTime, IsPositiveInt(args.endTime))
    /\ Optional(args.fromId,
                IF build = "original" THEN IsPositiveInt(args.fromId) ELSE ~IsNaN(args.fromId))

\* a || b
Or(a, b) == IF Falsy(a) THEN b ELSE a

\* Math.min(a, b) of two numbers that are not NaN
Min(a, b) == IF NumLt(b, a) THEN b ELSE a

\* the limit the handler puts in the request
SentLimit(build, tool, limit) ==
    CASE tool = "get_order_book" -> Or(limit, Int2Num(100))
      [] tool = "calculate_indicators" -> Or(limit, Int2Num(100))
      [] tool = "analyze_market" -> Int2Num(200)
      [] tool = "compare_symbols" -> Int2Num(100)
      [] tool \in {"get_klines", "get_ui_klines"} ->
            Min(Or(limit, Int2Num(500)), Int2Num(1000))
      [] OTHER ->
            IF build = "original" THEN Min(Or(limit, Int2Num(500)), Int2Num(1000))
            ELSE Or(limit, Int2Num(500))

\* variant of validateApiKey: the key is used as it is, '' when it is not set
validateApiKeyUnchecked(environment) ==
    [threw |-> FALSE, error |-> Error(""),
     apiKey |-> IF environment.apiKey.set THEN environment.apiKey.value ELSE <<>>]

\* validateApiKey: the key, or the Error it throws
validateApiKey(environment) ==
    LET apiKey == environment.apiKey
    IN  IF ~apiKey.set \/ apiKey.value = <<>>
        THEN [threw |-> TRUE, apiKey |-> <<>>,
              error |-> Error("BINANCE_API_KEY environment variable not set")]
        ELSE IF Len(apiKey.value) < 32 \/ Len(apiKey.value) > 128
        THEN [threw |-> TRUE, apiKey |-> <<>>,
              error |-> Error("Invalid BINANCE_API_KEY format")]
        ELSE [threw |-> FALSE, apiKey |-> apiKey.value, error |-> Error("")]

\* only the original server has the time range check of get_aggregate_trades
TimeRangeChecked(build) == build = "original"

\* args.startTime && args.endTime && args.endTime <= args.startTime
BadTimeRange(args) ==
    /\ ~Falsy(args.startTime)
    /\ ~Falsy(args.endTime)
    /\ NumLe(args.endTime, args.startTime)

\* what the handler throws before it sends anything, if it does
Thrown(build, tool, args, environment) ==
    IF tool = "get_historical_trades" /\ validateApiKey(environment).threw
    THEN [threw |-> TRUE, error |-> validateApiKey(environment).error]
    ELSE IF tool = "get_aggregate_trades" /\ TimeRangeChecked(build) /\ BadTimeRange(args)
    THEN [threw |-> TRUE, error |-> Error("End time must be after start time")]
    ELSE [threw |-> FALSE, error |-> Error("")]

\* the request axiosInstance.get sends: path, query parameters and the
\* headers the call adds (undefined parameters are not serialised)
Request(build, tool, args, environment) ==
    [path |-> Path(tool),
     params |->
        [symbol |-> args.symbol,
         limit |-> SentLimit(build, tool, args.limit),
         fromId |-> IF tool \in {"get_historical_trades", "get_aggregate_trades"}
                    THEN args.fromId ELSE Undefined,
         startTime |-> IF tool \in {"get_aggregate_trades", "get_klines", "get_ui_klines"}
                       THEN args.startTime ELSE Undefined,
         endTime |-> IF tool \in {"get_aggregate_trades", "get_klines", "get_ui_klines"}
                     THEN args.endTime ELSE Undefined,
         interval |-> IF tool \in {"get_klines", "get_ui_klines"}
                      THEN args.interval ELSE ""],
     headers |-> IF tool = "get_historical_trades"
                 THEN {<<"X-MBX-APIKEY", validateApiKey(environment).apiKey>>}
                 ELSE {}]

\* the catch block's response
ToolFailure(tool, error) ==
    [isError |-> TRUE, text |-> <<FailurePrefix(tool), sanitizeError(error)>>]

\* the response for data the exchange returned (the JSON text of the data)
ToolSuccess(data) == [isError |-> FALSE, text |-> <<"JSON", data>>]

\* the SDK's answer to arguments the schema rejects
InvalidArguments == [isError |-> TRUE, text |-> <<"MCP error -32602: ", "Invalid arguments">>]

MaxTime == 2

\* a string of n characters
Key(n) == [i \in 1..n |-> "k"]

\* BINANCE_API_KEY: not set, empty, and keys around the two length limits
ApiKeys ==
    {[set |-> FALSE, value |-> <<>>]}
        \cup {[set |-> TRUE, value |-> Key(n)] : n \in {0, 31, 32, 128, 129}}

Limits ==
    {Undefined, Fin(3, 2)} \cup {Int2Num(k) : k \in {0, 1, 1000, 1001, 5000, 5001}}

Times == {Undefined} \cup {Int2Num(t) : t \in 0..MaxTime}

ToolArgs(tool) ==
    [symbol : {"BTCUSDT"},
     limit : Limits,
     fromId : IF tool \in {"get_historical_trades", "get_aggregate_trades"}
              THEN {Undefined, Int2Num(7), Int2Num(-7)} ELSE {Undefined},
     startTime : IF tool \in {"get_aggregate_trades", "get_klines", "get_ui_klines"}
                 THEN Times ELSE {Undefined},
     endTime : IF tool \in {"get_aggregate_trades", "get_klines", "get_ui_klines"}
               THEN Times ELSE {Undefined},
     interval : IF tool \in {"get_klines", "get_ui_klines"} THEN {"1h"} ELSE {""}]

\* the errors axios can reject a request with: an HTTP status outside 2xx
\* or none, an axios code, and a message and body that differ
ToolErrors ==
    {AxiosError(response, code, message) :
        response \in {NoResponse} \cup
                     {HttpResponse(status, body) : status \in {400, 401, 429, 500, 503},
                                                   body \in {"body A", "body B"}},
        code \in {"ERR_BAD_REQUEST", "ECONNREFUSED", "ETIMEDOUT"},
        message \in {"message A"}}
    \cup {AxiosError(NoResponse, "ECONNRESET", message) : message \in {"message A", "message B"}}

ToolAnswers == {Fulfilled(<<"payload">>)} \cup {Rejected(error) : error \in ToolErrors}

InitTools ==
    /\ fn \in PassthroughTools
    /\ pc = "ready"
    /\ arg \in ToolArgs(fn)
    /\ env \in [build : Builds,
                 apiKey : IF fn = "get_historical_trades" THEN ApiKeys
                          ELSE {[set |-> FALSE, value |-> <<>>]}]
    /\ exchange \in ToolAnswers
    /\ levels = None
    /\ clustered = None
    /\ returns = None
    /\ ret = None
    /\ pending = {}
    /\ symbolData = None
    /\ overtaken = FALSE
    /\ candles = None
    /\ requests = <<>>
    /\ first = None
    /\ proc = None

\* the arguments fail the tool's schema: the handler is not called
SchemaReject ==
    /\ fn \in PassthroughTools
    /\ pc = "ready"
    /\ ~SchemaValid(env.build, fn, arg)
    /\ ret' = InvalidArguments
    /\ pc' = "done"
    /\ UNCHANGED <<fn, arg, levels, clustered, returns, exchange, pending, symbolData,
                   overtaken, candles, requests, env, first, proc>>

\* the handler throws before the request and its catch block answers
ToolThrow ==
    /\ fn \in PassthroughTools
    /\ pc = "ready"
    /\ SchemaValid(env.build, fn, arg)
    /\ Thrown(env.build, fn, arg, env).threw
    /\ ret' = ToolFailure(fn, Thrown(env.build, fn, arg, env).error)
    /\ pc' = "done"
    /\ UNCHANGED <<fn, arg, levels, clustered, returns, exchange, pending, symbolData,
                   overtaken, candles, requests, env, first, proc>>

\* the handler sends its request and awaits the response
ToolSend ==
    /\ fn \in PassthroughTools
    /\ pc = "ready"
    /\ SchemaValid(env.build, fn, arg)
    /\ ~Thrown(env.build, fn, arg, env).threw
    /\ requests' = Append(requests, Request(env.build, fn, arg, env))
    /\ pc' = "awaiting"
    /\ UNCHANGED <<fn, arg, levels, clustered, returns, ret, exchange, pending, symbolData,
                   overtaken, candles, env, first, proc>>

ToolResolve ==
    /\ fn \in PassthroughTools
    /\ pc = "awaiting"
    /\ exchange.ok
    /\ ret' = ToolSuccess(exchange.data)
    /\ pc' = "done"
    /\ UNCHANGED <<fn, arg, levels, clustered, returns, exchange, pending, symbolData,
                   overtaken, candles, requests, env, first, proc>>

\* axios rejects; the error carries the configuration of the request
ToolReject ==
    /\ fn \in PassthroughTools
    /\ pc = "awaiting"
    /\ ~exchange.ok
    /\ ret' = ToolFailure(fn, [exchange.error EXCEPT
                                  !.config = requests[Len(requests)].headers])
    /\ pc' = "done"
    /\ UNCHANGED <<fn, arg, levels, clustered, returns, exchange, pending, symbolData,
                   overtaken, candles, requests, env, first, proc>>

NextTools == SchemaReject \/ ToolThrow \/ ToolSend \/ ToolResolve \/ ToolReject

SpecTools == InitTools /\ [][NextTools]_vars

----------------------------------------------------------------------------
(* Claims about the passthrough tools, checked under SpecTools *)

\* the handler ran and its catch block answered
ToolFailed ==
    /\ fn \in PassthroughTools
    /\ pc = "done"
    /\ SchemaValid(env.build, fn, arg)
    /\ ret.isError

\* the fixed text for an HTTP status (0 when there was no response) and an
\* axios code, in the order of priority
SanitizedText(status, code) ==
    IF status = 401 THEN "Authentication failed. Please check your API key."
    ELSE IF status = 429 THEN "Rate limit exceeded. Please try again later."
    ELSE IF status >= 500 THEN "Binance API server error. Please try again later."
    ELSE IF code \in {"ECONNREFUSED", "ETIMEDOUT"}
    THEN "Unable to connect to Binance API. Please check your network connection."
    ELSE "An error occurred while fetching data."

\* C14: the text a failed tool reports is one of five fixed strings, chosen
\* by the error's HTTP status and code alone in the order 401, 429, >= 500,
\* ECONNREFUSED/ETIMEDOUT, generic; the response holds nothing else of the
\* error, so errors that differ in message, body, headers or API key only
\* give the same response.
C14_Sanitized ==
    ToolFailed =>
        LET rejected == requests # <<>>
            status == IF rejected /\ exchange.error.response.present
                      THEN exchange.error.response.status ELSE 0
            code == IF rejected THEN exchange.error.code ELSE ""
        IN  ret = [isError |-> TRUE,
                   text |-> <<FailurePrefix(fn), SanitizedText(status, code)>>]

C14_Witness ==
    /\ ToolFailed
    /\ fn = "get_historical_trades"
    /\ requests # <<>>
    /\ requests[1].headers = {<<"X-MBX-APIKEY", Key(32)>>}
    /\ exchange.error.message = "message B"
    /\ ret.text[2] = "An error occurred while fetching data."

KeyUsable ==
    env.apiKey.set /\ Len(env.apiKey.value) >= 32 /\ Len(env.apiKey.value) <= 128

\* C15: get_historical_trades sends a request only when BINANCE_API_KEY is
\* set and 32 to 128 characters long, and then with that key in the header;
\* otherwise it answers with an error, sends nothing, and no empty key
\* header ever leaves.
C15_KeyRequired ==
    fn = "get_historical_trades" =>
        /\ requests # <<>> => KeyUsable
        /\ \A i \in 1..Len(requests) :
               requests[i].headers = {<<"X-MBX-APIKEY", env.apiKey.value>>}
        /\ (~KeyUsable /\ pc # "ready") =>
               pc = "done" /\ ret.isError /\ requests = <<>>

C15_Witness ==
    /\ fn = "get_historical_trades"
    /\ pc = "done"
    /\ SchemaValid(env.build, fn, arg)
    /\ env.apiKey = [set |-> TRUE, value |-> Key(31)]
    /\ ret = ToolFailure(fn, Error("Invalid BINANCE_API_KEY format"))
    /\ requests = <<>>

\* C16: in every server that registers get_aggregate_trades, a call with
\* both startTime and endTime where endTime <= startTime answers with an
\* error and sends no request.
C16_TimeRangeValidated ==
    (/\ fn = "get_aggregate_trades"
     /\ pc # "ready"
     /\ arg.startTime # Undefined
     /\ arg.endTime # Undefined
     /\ NumLe(arg.endTime, arg.startTime)) =>
        /\ requests = <<>>
        /\ pc = "done"
        /\ ret.isError

\* the same in the original server alone
C16_OriginalServerOnly ==
    env.build = "original" => C16_TimeRangeValidated

----------------------------------------------------------------------------
(* The compare_symbols tool handler *)

\* JSON.stringify of a number-valued property: NaN and the infinities are
\* written as null, an undefined property is left out
Null == [k |-> "null", n |-> 0, d |-> 0]

Absent == [k |-> "absent", n |-> 0, d |-> 0]

SurdNull == [k |-> "null", sg |-> 0, n |-> 0, d |-> 0]

JsonNumber(x) ==
    IF x = Undefined THEN Absent
    ELSE IF x.k = "fin" THEN x ELSE Null

JsonSurd(x) == IF x.k = "fin" THEN x ELSE SurdNull

\* a number operand that may be undefined (undefined converts to NaN)
ToNumber(x) == IF x = Undefined THEN NaN ELSE x

\* x.toFixed(2) + '%': the hundredths for a finite x, else the text
PercentText(x) ==
    IF IsNaN(x) THEN [text |-> "NaN%", hundredths |-> 0]
    ELSE IF x.k = "inf"
         THEN [text |-> (IF x.n > 0 THEN "Infinity%" ELSE "-Infinity%"), hundredths |-> 0]
    ELSE [text |-> "fixed%",
          hundredths |-> Sgn(x.n) * ((2 * 100 * Abs(x.n) + x.d) \div (2 * x.d))]

\* the record of one symbol, before serialisation
SymbolRecord(metric, ohlcv) ==
    LET closes == Closes(ohlcv)
        stats == calculatePriceStats(ohlcv)
    IN  CASE metric = "performance" ->
               [currentPrice |-> LastOf(closes),
                return24h |-> NumMul(stats.avgReturn, Int2Num(24)),
                winRate |-> stats.winRate,
                sharpeRatio |-> stats.sharpeRatio]
          [] metric = "volatility" ->
               LET atr == calculateATR(ohlcv, 14)
               IN  [stdDev |-> stats.stdDev,
                    atr |-> LastOf(atr),
                    atrPercent |-> PercentText(
                        NumMul(NumDiv(ToNumber(LastOf(atr)), ToNumber(LastOf(closes))),
                               Int2Num(100))),
                    maxDrawdown |-> stats.minReturn]
          [] metric = "correlation" ->
               [trend |-> detectTrend(closes, 20, 50),
                rsi |-> LastOf(calculateRSI(closes, 14))]

\* the record as JSON.stringify writes it
JsonRecord(metric, rec) ==
    CASE metric = "performance" ->
           [currentPrice |-> JsonNumber(rec.currentPrice),
            return24h |-> JsonNumber(rec.return24h),
            winRate |-> JsonNumber(rec.winRate),
            sharpeRatio |-> JsonSurd(rec.sharpeRatio)]
      [] metric = "volatility" ->
           [stdDev |-> JsonSurd(rec.stdDev),
            atr |-> JsonNumber(rec.atr),
            atrPercent |-> rec.atrPercent,
            maxDrawdown |-> JsonNumber(rec.maxDrawdown)]
      [] metric = "correlation" ->
           [trend |-> rec.trend, rsi |-> JsonNumber(rec.rsi)]

\* result.symbols[symbol] = rec on an object kept as its entries in key order
PutEntry(entries, symbol, rec) ==
    IF \E i \in 1..Len(entries) : entries[i].symbol = symbol
    THEN [i \in 1..Len(entries) |->
            IF entries[i].symbol = symbol THEN [symbol |-> symbol, rec |-> rec]
            ELSE entries[i]]
    ELSE Append(entries, [symbol |-> symbol, rec |-> rec])

\* the loop `for (const data of symbolData)`
RECURSIVE FillSymbols(_, _, _, _)
FillSymbols(entries, data, i, metric) ==
    IF i > Len(data) THEN entries
    ELSE FillSymbols(PutEntry(entries, data[i].symbol, SymbolRecord(metric, data[i].ohlcv)),
                     data, i + 1, metric)

\* the sign of x - y for two square roots, 0 when the difference is NaN
SurdDiffSign(x, y) ==
    IF x.k = "nan" \/ y.k = "nan" THEN 0
    ELSE IF x.k = "inf" /\ y.k = "inf" THEN (IF x.sg = y.sg THEN 0 ELSE x.sg)
    ELSE IF x.k = "inf" THEN x.sg
    ELSE IF y.k = "inf" THEN -y.sg
    ELSE IF x.sg # y.sg THEN Sgn(x.sg - y.sg)
    ELSE x.sg * Sgn(x.n * y.d - y.n * x.d)

\* (a, b) => b[1].sharpeRatio - a[1].sharpeRatio, by position
SharpeCompare(entries) ==
    [p \in (1..Len(entries)) \X (1..Len(entries)) |->
        SurdDiffSign(entries[p[2]].rec.sharpeRatio, entries[p[1]].rec.sharpeRatio)]

\* Object.entries(result.symbols).sort(...).map(([symbol]) => symbol)
Ranking(entries) ==
    LET sorted == ArraySort(entries, SharpeCompare(entries))
    IN  [i \in 1..Len(sorted) |-> sorted[i].symbol]

\* variant of CompareResponse: the ranking step runs for every metric (the
\* comparator then subtracts undefined from undefined and keeps the order)
CompareResponseAlwaysRanked(metric, data) ==
    LET entries == FillSymbols(<<>>, data, 1, metric)
    IN  [isError |-> FALSE,
         metric |-> metric,
         symbols |-> [i \in 1..Len(entries) |->
                        [symbol |-> entries[i].symbol,
                         rec |-> JsonRecord(metric, entries[i].rec)]],
         ranked |-> TRUE,
         ranking |-> IF metric = "performance" THEN Ranking(entries)
                     ELSE [i \in 1..Len(entries) |-> entries[i].symbol]]

\* the success response: the parsed JSON text (the wall-clock timestamp and
\* the echoed interval are left out)
CompareResponse(metric, data) ==
    LET entries == FillSymbols(<<>>, data, 1, metric)
    IN  [isError |-> FALSE,
         metric |-> metric,
         symbols |-> [i \in 1..Len(entries) |->
                        [symbol |-> entries[i].symbol,
                         rec |-> JsonRecord(metric, entries[i].rec)]],
         ranked |-> metric = "performance",
         ranking |-> IF metric = "performance" THEN Ranking(entries) ELSE <<>>]

\* the catch block's response
CompareFailure(error) ==
    [isError |-> TRUE,
     text |-> <<"Failed to compare symbols: ", sanitizeError(error)>>]

\* variant of Slot: values collected in the order the fetches settle
SlotByArrival(i) == Len(arg.symbols) - Cardinality(pending) + 1

\* Promise.all stores the value of the i-th promise at index i
Slot(i) == i

\* the value the i-th async callback returns
Settled(i, response) ==
    [symbol |-> arg.symbols[i], ohlcv |-> klineToOHLCV(response.data)]

MaxSymbols == 3

Symbols == {"AA", "BB", "CC"}

\* a raw kline whose prices are the one-character string c
Kline(t, c) == <<t, <<c>>, <<c>>, <<c>>, <<c>>, <<"1">>>>

Klines(c1, c2, c3) == <<Kline(1, c1), Kline(2, c2), Kline(3, c3)>>

\* what the exchange can answer to a klines request
Answers ==
    {Fulfilled(Klines("1", "2", "2")),
     Fulfilled(Klines("2", "4", "1")),
     Fulfilled(Klines("2", "2", "2")),
     Rejected(AxiosError(HttpResponse(429, "Too many requests"), "ERR_BAD_REQUEST",
                         "Request failed with status code 429"))}

Metrics == {"performance", "volatility", "correlation"}

Range(f) == {f[i] : i \in DOMAIN f}

InitCompare ==
    /\ fn = "compare_symbols"
    /\ pc = "ready"
    /\ arg \in [symbols : UNION {[1..m -> Symbols] : m \in 2..MaxSymbols},
                metric : Metrics]
    /\ exchange \in [Range(arg.symbols) -> Answers]
    /\ levels = None
    /\ clustered = None
    /\ returns = None
    /\ ret = None
    /\ pending = {}
    /\ symbolData = None
    /\ overtaken = FALSE
    /\ candles = None
    /\ requests = <<>>
    /\ env = None
    /\ first = None
    /\ proc = None

\* args.symbols.map(async ...): every request is sent before the first await
CompareStart ==
    /\ fn = "compare_symbols"
    /\ pc = "ready"
    /\ pc' = "fetching"
    /\ pending' = 1..Len(arg.symbols)
    /\ symbolData' = [i \in 1..Len(arg.symbols) |-> None]
    /\ requests' = [i \in 1..Len(arg.symbols) |->
                       [path |-> "/api/v3/klines",
                        params |-> [symbol |-> arg.symbols[i],
                                    limit |-> SentLimit("enhanced", "compare_symbols", Undefined),
                                    fromId |-> Undefined, startTime |-> Undefined,
                                    endTime |-> Undefined, interval |-> "1h"],
                        headers |-> {}]]
    /\ UNCHANGED <<fn, arg, levels, clustered, returns, ret, exchange, overtaken,
                   candles, env, first, proc>>

\* a response arrives and the callback returns {symbol, ohlcv}
FetchResolve(i) ==
    /\ fn = "compare_symbols"
    /\ pc = "fetching"
    /\ i \in pending
    /\ exchange[arg.symbols[i]].ok
    /\ exchange[arg.symbols[i]].array
    /\ symbolData' = [symbolData EXCEPT ![Slot(i)] = Settled(i, exchange[arg.symbols[i]])]
    /\ pending' = pending \ {i}
    /\ overtaken' = (overtaken \/ \E j \in pending : j < i)
    /\ UNCHANGED <<fn, pc, arg, levels, clustered, returns, ret, exchange,
                   candles, requests, env, first, proc>>

\* variant of FetchReject: the callback catches the failure and returns the
\* symbol with no candles, so the comparison goes on without it
FetchRejectSkipping(i) ==
    /\ fn = "compare_symbols"
    /\ pc = "fetching"
    /\ i \in pending
    /\ ~exchange[arg.symbols[i]].ok
    /\ symbolData' = [symbolData EXCEPT
                         ![Slot(i)] = [symbol |-> arg.symbols[i], ohlcv |-> <<>>]]
    /\ pending' = pending \ {i}
    /\ overtaken' = (overtaken \/ \E j \in pending : j < i)
    /\ UNCHANGED <<fn, pc, arg, levels, clustered, returns, ret, exchange,
                   candles, requests, env, first, proc>>

\* a request fails: Promise.all rejects and the catch block answers
FetchReject(i) ==
    /\ fn = "compare_symbols"
    /\ pc = "fetching"
    /\ i \in pending
    /\ ~exchange[arg.symbols[i]].ok
    /\ ret' = CompareFailure(exchange[arg.symbols[i]].error)
    /\ pc' = "done"
    /\ pending' = pending \ {i}
    /\ overtaken' = (overtaken \/ \E j \in pending : j < i)
    /\ UNCHANGED <<fn, arg, levels, clustered, returns, exchange, symbolData,
                   candles, requests, env, first, proc>>

\* all promises fulfilled: the handler resumes after the await
CompareFinish ==
    /\ fn = "compare_symbols"
    /\ pc = "fetching"
    /\ pending = {}
    /\ ret' = CompareResponse(arg.metric, symbolData)
    /\ pc' = "done"
    /\ UNCHANGED <<fn, arg, levels, clustered, returns, exchange, pending, symbolData,
                   overtaken,
                   candles, requests, env, first, proc>>

\* a request still in flight when the handler has answered settles unobserved
FetchSettleLate(i) ==
    /\ fn = "compare_symbols"
    /\ pc = "done"
    /\ i \in pending
    /\ pending' = pending \ {i}
    /\ UNCHANGED <<fn, pc, arg, levels, clustered, returns, ret, exchange, symbolData,
                   overtaken,
                   candles, requests, env, first, proc>>

NextCompare ==
    \/ CompareStart
    \/ \E i \in 1..MaxSymbols : FetchResolve(i)
    \/ \E i \in 1..MaxSymbols : FetchReject(i)
    \/ CompareFinish
    \/ \E i \in 1..MaxSymbols : FetchSettleLate(i)

SpecCompare == InitCompare /\ [][NextCompare]_vars

----------------------------------------------------------------------------
(* compare_symbols with answers long enough for calculateRSI (15 closes);    *)
(* detectTrend, which wants 50 closes, answers 'unknown' for them.  The long *)
(* answers rise or fall by one per candle, and are given to the              *)
(* 'correlation' metric only: it takes no percentage return of them.         *)

MaxLongKlines == 16

DigitChar(d) == <<"0", "1", "2", "3", "4", "5", "6", "7", "8", "9">>[d + 1]

\* the decimal text of a natural number, as the exchange writes a price
RECURSIVE DecimalText(_)
DecimalText(n) ==
    IF n < 10 THEN <<DigitChar(n)>>
    ELSE DecimalText(n \div 10) \o <<DigitChar(n % 10)>>

\* a raw kline whose prices are all the number p
KlineAt(t, p) ==
    <<t, DecimalText(p), DecimalText(p), DecimalText(p), DecimalText(p), <<"1">>>>

RisingKlines == [t \in 1..MaxLongKlines |-> KlineAt(t, t)]

FallingKlines == [t \in 1..MaxLongKlines |-> KlineAt(t, MaxLongKlines + 1 - t)]

LongAnswers ==
    {Fulfilled(RisingKlines),
     Fulfilled(FallingKlines),
     Fulfilled(Klines("1", "2", "2")),
     Rejected(AxiosError(NoResponse, "ECONNABORTED", "timeout of 10000ms exceeded"))}

AnswersFor(metric) == IF metric = "correlation" THEN LongAnswers ELSE Answers

InitRecords ==
    /\ fn = "compare_symbols"
    /\ pc = "ready"
    /\ arg \in [symbols : UNION {[1..m -> Symbols] : m \in 2..MaxSymbols},
                metric : Metrics]
    /\ exchange \in [Range(arg.symbols) -> AnswersFor(arg.metric)]
    /\ levels = None
    /\ clustered = None
    /\ returns = None
    /\ ret = None
    /\ pending = {}
    /\ symbolData = None
    /\ overtaken = FALSE
    /\ candles = None
    /\ requests = <<>>
    /\ env = None
    /\ first = None
    /\ proc = None

SpecRecords == InitRecords /\ [][NextCompare]_vars

----------------------------------------------------------------------------
(* The calculate_indicators and analyze_market tool handlers.  The           *)
(* indicators requested in the model are sma, ema, rsi and atr.              *)

AnalysisTools == {"calculate_indicators", "analyze_market"}

\* the klines request of an analysis tool
KlinesRequest(tool, symbol, interval, limit) ==
    [path |-> "/api/v3/klines",
     params |-> [symbol |-> symbol, limit |-> SentLimit("enhanced", tool, limit),
                 fromId |-> Undefined, startTime |-> Undefined, endTime |-> Undefined,
                 interval |-> interval],
     headers |-> {}]

\* periodSchema and limitSchema.max(500) of calculate_indicators
IndicatorsSchemaValid(args) ==
    /\ Optional(args.period, IsPositiveInt(args.period) /\ args.period.n <= 200)
    /\ Optional(args.limit,
                IsPositiveInt(args.limit) /\ args.limit.n <= LimitMax("calculate_indicators"))

\* arr.slice(-n)
LastN(arr, n) ==
    IF Len(arr) <= n THEN arr ELSE SubSeq(arr, Len(arr) - n + 1, Len(arr))

\* an array of numbers as JSON.stringify writes it
JsonNumbers(arr) ==
    [i \in 1..Len(arr) |-> IF arr[i] = Undefined THEN Null ELSE JsonNumber(arr[i])]

\* x ? (x > 70 ? 'overbought' : x < 30 ? 'oversold' : 'neutral') : 'unknown'
Momentum(currentRSI) ==
    IF Falsy(currentRSI) THEN "unknown"
    ELSE IF NumGt(currentRSI, Int2Num(70)) THEN "overbought"
    ELSE IF NumLt(currentRSI, Int2Num(30)) THEN "oversold"
    ELSE "neutral"

\* the entry results.indicators[...] of one requested indicator
IndicatorEntry(indicator, data, period) ==
    LET closes == Closes(data)
    IN  CASE indicator = "sma" ->
               LET sma == calculateSMA(closes, period.n)
               IN  [name |-> "sma", period |-> period,
                    current |-> JsonNumber(LastOf(sma)),
                    values |-> JsonNumbers(LastN(sma, 10))]
          [] indicator = "ema" ->
               LET ema == calculateEMA(closes, period.n)
               IN  [name |-> "ema", period |-> period,
                    current |-> JsonNumber(LastOf(ema)),
                    values |-> JsonNumbers(LastN(ema, 10))]
          [] indicator = "rsi" ->
               LET rsi == calculateRSI(closes, 14)
               IN  [name |-> "rsi", period |-> Int2Num(14),
                    current |-> JsonNumber(LastOf(rsi)),
                    signal |-> Momentum(LastOf(rsi)),
                    values |-> JsonNumbers(LastN(rsi, 10))]
          [] indicator = "atr" ->
               LET atr == calculateATR(data, 14)
               IN  [name |-> "atr", period |-> Int2Num(14),
                    current |-> JsonNumber(LastOf(atr)),
                    volatility |->
                        IF Falsy(LastOf(atr)) THEN [text |-> "unknown", hundredths |-> 0]
                        ELSE PercentText(NumMul(NumDiv(LastOf(atr), ToNumber(LastOf(closes))),
                                                Int2Num(100)))]

\* results.indicators[key] = entry on an object kept as its entries in key order
PutIndicator(entries, entry) ==
    IF \E i \in 1..Len(entries) : entries[i].name = entry.name
    THEN [i \in 1..Len(entries) |->
            IF entries[i].name = entry.name THEN entry ELSE entries[i]]
    ELSE Append(entries, entry)

\* the loop `for (const indicator of args.indicators)`
RECURSIVE FillIndicators(_, _, _, _, _)
FillIndicators(entries, indicators, i, data, period) ==
    IF i > Len(indicators) THEN entries
    ELSE FillIndicators(PutIndicator(entries, IndicatorEntry(indicators[i], data, period)),
                        indicators, i + 1, data, period)

\* what calculate_indicators answers once the klines arrived: with no candle
\* ohlcv[ohlcv.length - 1] is undefined, reading its timestamp throws a
\* TypeError and the catch block answers
IndicatorsResponse(args, data) ==
    IF Len(data) = 0
    THEN ToolFailure("calculate_indicators",
                     Error("Cannot read properties of undefined (reading 'timestamp')"))
    ELSE ToolSuccess([symbol |-> args.symbol,
                      interval |-> args.interval,
                      dataPoints |-> Len(data),
                      latest |-> [timestamp |-> <<"ISO", data[Len(data)].timestamp>>,
                                  close |-> JsonNumber(data[Len(data)].close)],
                      indicators |-> FillIndicators(<<>>, args.indicators, 1, data,
                                                    Or(args.period, Int2Num(20)))])

\* closes[closes.length - k], undefined before the start of the array
FromEnd(arr, k) == IF k > Len(arr) THEN Undefined ELSE arr[Len(arr) - k + 1]

\* s > k for a square root s and an integer k >= 0
SurdAbove(s, k) ==
    IF s.k = "nan" THEN FALSE
    ELSE IF s.k = "inf" THEN s.sg > 0
    ELSE s.sg > 0 /\ s.n > k * k * s.d

\* calculatePriceStats' record as JSON.stringify writes it
JsonStats(stats) ==
    [avgReturn |-> JsonNumber(stats.avgReturn),
     stdDev |-> JsonSurd(stats.stdDev),
     sharpeRatio |-> JsonSurd(stats.sharpeRatio),
     maxReturn |-> JsonNumber(stats.maxReturn),
     minReturn |-> JsonNumber(stats.minReturn),
     winRate |-> JsonNumber(stats.winRate)]

\* levels.filter(l => l.type === type).slice(0, 3)
FirstThreeOfType(lvls, type) ==
    LET S == {i \in 1..Len(lvls) : lvls[i].type = type}
        picked == [k \in 1..Cardinality(S) |->
                      lvls[CHOOSE i \in S : Cardinality({j \in S : j < i}) = k - 1]]
    IN  IF Len(picked) <= 3 THEN picked ELSE SubSeq(picked, 1, 3)

\* what analyze_market answers once the klines arrived (the wall-clock
\* timestamp is left out)
MarketResponse(args, data) ==
    LET closes == Closes(data)
        current == FromEnd(closes, 1)
        dayAgo == FromEnd(closes, 25)
        stats == calculatePriceStats(data)
        lvls == findSupportResistance(data, 20, Fin(2, 100))
        currentRSI == LastOf(calculateRSI(closes, 14))
    IN  ToolSuccess(
            [symbol |-> args.symbol,
             interval |-> args.interval,
             price |-> [current |-> JsonNumber(current),
                        change24h |-> PercentText(
                            NumMul(NumDiv(NumSub(ToNumber(current), ToNumber(dayAgo)),
                                          ToNumber(dayAgo)), Int2Num(100)))],
             trend |-> [direction |-> detectTrend(closes, 20, 50), strength |-> "moderate"],
             statistics |-> JsonStats(stats),
             hasLevels |-> args.includeSupport = "true",
             levels |-> IF args.includeSupport = "true"
                        THEN [support |-> FirstThreeOfType(lvls, "support"),
                              resistance |-> FirstThreeOfType(lvls, "resistance")]
                        ELSE <<>>,
             conditions |-> [rsi |-> JsonNumber(currentRSI),
                             momentum |-> Momentum(currentRSI),
                             volatility |-> IF SurdAbove(stats.stdDev, 2) THEN "high"
                                            ELSE IF SurdAbove(stats.stdDev, 1) THEN "moderate"
                                            ELSE "low"]])

\* klines answers of 0 to 3 candles, and a rejection
AnalysisAnswers ==
    {Fulfilled(<<>>),
     Fulfilled(<<Kline(1, "2")>>),
     Fulfilled(<<Kline(1, "2"), Kline(2, "4")>>),
     Fulfilled(Klines("1", "2", "2")),
     Fulfilled(Klines("2", "4", "1")),
     Rejected(AxiosError(HttpResponse(503, "Service unavailable"), "ERR_BAD_RESPONSE",
                         "Request failed with status code 503"))}

MaxIndicators == 2

AnalysisArgs(tool) ==
    IF tool = "calculate_indicators"
    THEN [symbol : {"BTCUSDT"},
          interval : {"1h"},
          indicators : SeqsUpTo({"sma", "ema", "rsi", "atr"}, MaxIndicators),
          period : {Undefined} \cup {Int2Num(k) : k \in {0, 1, 2, 200, 201}},
          limit : {Undefined} \cup {Int2Num(k) : k \in {1, 500, 501}}]
    ELSE [symbol : {"BTCUSDT"},
          interval : {"1h", "4h", "1d"},
          includeSupport : {"undefined", "true", "false"}]

InitAnalysis ==
    /\ fn \in AnalysisTools
    /\ pc = "ready"
    /\ arg \in AnalysisArgs(fn)
    /\ env = [build |-> "enhanced", apiKey |-> [set |-> FALSE, value |-> <<>>]]
    /\ exchange \in AnalysisAnswers
    /\ levels = None
    /\ clustered = None
    /\ returns = None
    /\ ret = None
    /\ pending = {}
    /\ symbolData = None
    /\ overtaken = FALSE
    /\ candles = None
    /\ requests = <<>>
    /\ first = None
    /\ proc = None

\* the arguments fail the schema of calculate_indicators
AnalysisSchemaReject ==
    /\ fn = "calculate_indicators"
    /\ pc = "ready"
    /\ ~IndicatorsSchemaValid(arg)
    /\ ret' = InvalidArguments
    /\ pc' = "done"
    /\ UNCHANGED <<fn, arg, levels, clustered, returns, exchange, pending, symbolData,
                   overtaken, candles, requests, env, first, proc>>

\* the handler sends the klines request and awaits the response
AnalysisSend ==
    /\ fn \in AnalysisTools
    /\ pc = "ready"
    /\ fn = "calculate_indicators" => IndicatorsSchemaValid(arg)
    /\ requests' = Append(requests,
                          KlinesRequest(fn, arg.symbol, arg.interval,
                                        IF fn = "calculate_indicators" THEN arg.limit
                                        ELSE Undefined))
    /\ pc' = "awaiting"
    /\ UNCHANGED <<fn, arg, levels, clustered, returns, ret, exchange, pending, symbolData,
                   overtaken, candles, env, first, proc>>

IndicatorsResolve ==
    /\ fn = "calculate_indicators"
    /\ pc = "awaiting"
    /\ exchange.ok
    /\ exchange.array
    /\ candles' = klineToOHLCV(exchange.data)
    /\ ret' = IndicatorsResponse(arg, candles')
    /\ pc' = "done"
    /\ UNCHANGED <<fn, arg, levels, clustered, returns, exchange, pending, symbolData,
                   overtaken, requests, env, first, proc>>

MarketResolve ==
    /\ fn = "analyze_market"
    /\ pc = "awaiting"
    /\ exchange.ok
    /\ exchange.array
    /\ candles' = klineToOHLCV(exchange.data)
    /\ ret' = MarketResponse(arg, candles')
    /\ pc' = "done"
    /\ UNCHANGED <<fn, arg, levels, clustered, returns, exchange, pending, symbolData,
                   overtaken, requests, env, first, proc>>

AnalysisReject ==
    /\ fn \in AnalysisTools
    /\ pc = "awaiting"
    /\ ~exchange.ok
    /\ ret' = ToolFailure(fn, [exchange.error EXCEPT
                                  !.config = requests[Len(requests)].headers])
    /\ pc' = "done"
    /\ UNCHANGED <<fn, arg, levels, clustered, returns, exchange, pending, symbolData,
                   overtaken, candles, requests, env, first, proc>>

NextAnalysis ==
    \/ AnalysisSchemaReject
    \/ AnalysisSend
    \/ IndicatorsResolve
    \/ MarketResolve
    \/ AnalysisReject

SpecAnalysis == InitAnalysis /\ [][NextAnalysis]_vars

----------------------------------------------------------------------------
(* calculate_indicators (indicator rsi) and analyze_market on answers of 15  *)
(* candles, the fewest that give an RSI.  The prices are powers of two, so   *)
(* that every return is 1 or -1/2.                                           *)

\* klines whose prices are 2^e for the exponents e of exps
PowerKlines(exps) == [t \in 1..Len(exps) |-> KlineAt(t, 2 ^ exps[t])]

\* doubling all the way: RSI 100
ClimbKlines == PowerKlines([t \in 1..15 |-> t - 1])

\* halving all the way: RSI 0
SlideKlines == PowerKlines([t \in 1..15 |-> 15 - t])

\* seven doublings, then seven halvings: RSI 50
HillKlines == PowerKlines([t \in 1..15 |-> IF t <= 8 THEN t - 1 ELSE 15 - t])

\* twelve halvings from 8192 to 2, then 4 and 8: RSI 0.07
DipKlines == PowerKlines([t \in 1..15 |-> IF t <= 13 THEN 14 - t ELSE t - 12])

SignalAnswers ==
    {Fulfilled(ClimbKlines),
     Fulfilled(SlideKlines),
     Fulfilled(HillKlines),
     Fulfilled(DipKlines),
     Fulfilled(Klines("1", "2", "2")),
     Rejected(AxiosError(HttpResponse(503, "Service unavailable"), "ERR_BAD_RESPONSE",
                         "Request failed with status code 503"))}

SignalArgs(tool) ==
    IF tool = "calculate_indicators"
    THEN [symbol : {"BTCUSDT"},
          interval : {"1h", "4h", "1d"},
          indicators : {<<"rsi">>},
          period : {Undefined, Int2Num(14), Int2Num(201)},
          limit : {Undefined, Int2Num(15)}]
    ELSE AnalysisArgs(tool)

InitSignals ==
    /\ fn \in AnalysisTools
    /\ pc = "ready"
    /\ arg \in SignalArgs(fn)
    /\ env = [build |-> "enhanced", apiKey |-> [set |-> FALSE, value |-> <<>>]]
    /\ exchange \in SignalAnswers
    /\ levels = None
    /\ clustered = None
    /\ returns = None
    /\ ret = None
    /\ pending = {}
    /\ symbolData = None
    /\ overtaken = FALSE
    /\ candles = None
    /\ requests = <<>>
    /\ first = None
    /\ proc = None

SpecSignals == InitSignals /\ [][NextAnalysis]_vars

\* the RSI signal of a successful response
ReportedSignal(response) ==
    IF fn = "calculate_indicators"
    THEN response.text[2].indicators[1].signal
    ELSE response.text[2].conditions.momentum

\* the signal the latest RSI value stands for
SignalOf(value) ==
    IF value.n > 70 * value.d THEN "overbought"
    ELSE IF value.n < 30 * value.d THEN "oversold"
    ELSE "neutral"

\* C24: the RSI signal of calculate_indicators and analyze_market is
\* 'unknown' if and only if calculateRSI returned no value; with a value it
\* is 'overbought' above 70, 'oversold' below 30 (an RSI of 0 included) and
\* 'neutral' otherwise.
C24_SignalByValue ==
    (fn \in AnalysisTools /\ pc = "done" /\ ~ret.isError) =>
        LET rsi == calculateRSI(Closes(candles), 14)
        IN  /\ ReportedSignal(ret) = "unknown" <=> rsi = <<>>
            /\ rsi # <<>> => ReportedSignal(ret) = SignalOf(rsi[Len(rsi)])

\* the same for every latest RSI value other than 0
C24_SignalOfNonZero ==
    (fn \in AnalysisTools /\ pc = "done" /\ ~ret.isError) =>
        LET rsi == calculateRSI(Closes(candles), 14)
        IN  (rsi = <<>> \/ rsi[Len(rsi)] # Zero) =>
                /\ ReportedSignal(ret) = "unknown" <=> rsi = <<>>
                /\ rsi # <<>> => ReportedSignal(ret) = SignalOf(rsi[Len(rsi)])

----------------------------------------------------------------------------
(* Claims about the analysis tools, checked under SpecAnalysis *)

\* the samples an indicator needs for its first value
SamplesNeeded(indicator, period) ==
    IF indicator \in {"sma", "ema"} THEN period.n ELSE 15

\* the klines arrived and the handler answered
AnalysisAnswered(tool) ==
    /\ fn = tool
    /\ pc = "done"
    /\ exchange.ok
    /\ tool = "calculate_indicators" => IndicatorsSchemaValid(arg)

\* the entry of an indicator in a successful response
EntryOf(response, indicator) ==
    LET entries == response.text[2].indicators
    IN  entries[CHOOSE i \in 1..Len(entries) : entries[i].name = indicator]

\* the response reports every requested indicator: a value for one with
\* enough samples, no current value (and the label 'unknown' where the
\* indicator has a label) for one with too few
ReportsPartially(response, args, data) ==
    LET period == Or(args.period, Int2Num(20))
    IN  /\ ~response.isError
        /\ \A i \in 1..Len(args.indicators) :
               LET indicator == args.indicators[i]
                   entry == EntryOf(response, indicator)
               IN  IF Len(data) < SamplesNeeded(indicator, period)
                   THEN /\ entry.current = Absent
                        /\ indicator = "rsi" => entry.signal = "unknown"
                        /\ indicator = "atr" => entry.volatility.text = "unknown"
                   ELSE entry.current.k = "fin"

HasShortIndicator(args, data) ==
    \E i \in 1..Len(args.indicators) :
        Len(data) < SamplesNeeded(args.indicators[i], Or(args.period, Int2Num(20)))

\* C12: whenever the fetched candles are fewer than a requested indicator
\* needs, calculate_indicators answers without error, reports the
\* indicators it can compute and marks the short ones absent/'unknown';
\* analyze_market answers without error with trend 'unknown'.
C12_PartialResults ==
    /\ (AnalysisAnswered("calculate_indicators") /\ HasShortIndicator(arg, candles)) =>
           ReportsPartially(ret, arg, candles)
    /\ (AnalysisAnswered("analyze_market") /\ Len(candles) < 50) =>
           ~ret.isError /\ ret.text[2].trend.direction = "unknown"

\* the same for answers of at least one candle
C12_WithSomeCandle ==
    candles # <<>> => C12_PartialResults

----------------------------------------------------------------------------
(* The whole model *)

\* the server: every tool handler of the model
InitServer == InitTools \/ InitAnalysis \/ InitCompare

NextServer == NextTools \/ NextAnalysis \/ NextCompare

SpecServer == InitServer /\ [][NextServer]_vars

Init ==
    \/ InitSR
    \/ InitTrend
    \/ InitStats
    \/ InitFrame
    \/ InitNormalize
    \/ InitIndicators
    \/ InitServer

Next ==
    \/ NextSR
    \/ NextTrend
    \/ NextStats
    \/ NextFrame
    \/ NextNormalize
    \/ NextIndicators
    \/ NextServer

Spec == Init /\ [][Next]_vars

----------------------------------------------------------------------------
(* Claims about the requests of the server, checked under SpecServer *)

LimitOmitted == fn # "compare_symbols" /\ fn # "analyze_market" /\ arg.limit = Undefined

\* C17: the limit parameter of every request stays within the bound of its
\* tool: at most 500 for calculate_indicators (100 when omitted), 200 for
\* analyze_market, 100 per symbol for compare_symbols, at most 1000 for the
\* trades and K-line tools (500 when omitted), at most 5000 for
\* get_order_book (100 when omitted).
C17_LimitBounded ==
    \A i \in 1..Len(requests) :
        LET limit == requests[i].params.limit
        IN  /\ IsPositiveInt(limit)
            /\ CASE fn = "calculate_indicators" ->
                       limit.n <= 500 /\ (LimitOmitted => limit.n = 100)
                  [] fn = "analyze_market" -> limit.n = 200
                  [] fn = "compare_symbols" -> limit.n = 100
                  [] fn = "get_order_book" ->
                       limit.n <= 5000 /\ (LimitOmitted => limit.n = 100)
                  [] OTHER -> limit.n <= 1000 /\ (LimitOmitted => limit.n = 500)

C17_Witness ==
    /\ fn = "get_recent_trades"
    /\ env.build = "enhanced"
    /\ arg.limit = Int2Num(1000)
    /\ Len(requests) = 1
    /\ requests[1].params.limit = Int2Num(1000)

----------------------------------------------------------------------------
(* The three analysis handlers under every outcome of the fetch: candles,    *)
(* no candle, rows that do not parse, a body that is no array, an HTTP       *)
(* error, a timeout.  Every statement of a handler is inside its try block.  *)

NotAFunction == Error("klines.map is not a function")

\* variant of AnalysisMalformed: klineToOHLCV is called outside the try
\* block, its TypeError leaves the handler
AnalysisMalformedEscaping ==
    /\ fn \in AnalysisTools
    /\ pc = "awaiting"
    /\ exchange.ok
    /\ ~exchange.array
    /\ pc' = "escaped"
    /\ UNCHANGED <<fn, arg, levels, clustered, returns, ret, exchange, pending,
                   symbolData, overtaken, candles, requests, env, first, proc>>

\* the body is no array: klines.map throws a TypeError in klineToOHLCV and
\* the catch block answers
AnalysisMalformed ==
    /\ fn \in AnalysisTools
    /\ pc = "awaiting"
    /\ exchange.ok
    /\ ~exchange.array
    /\ ret' = ToolFailure(fn, NotAFunction)
    /\ pc' = "done"
    /\ UNCHANGED <<fn, arg, levels, clustered, returns, exchange, pending, symbolData,
                   overtaken, candles, requests, env, first, proc>>

\* the same in a callback of compare_symbols: its promise rejects, Promise.all
\* rejects and the catch block answers
FetchMalformed(i) ==
    /\ fn = "compare_symbols"
    /\ pc = "fetching"
    /\ i \in pending
    /\ exchange[arg.symbols[i]].ok
    /\ ~exchange[arg.symbols[i]].array
    /\ ret' = CompareFailure(NotAFunction)
    /\ pc' = "done"
    /\ pending' = pending \ {i}
    /\ overtaken' = (overtaken \/ \E j \in pending : j < i)
    /\ UNCHANGED <<fn, arg, levels, clustered, returns, exchange, symbolData,
                   candles, requests, env, first, proc>>

OutcomeAnswers ==
    {Fulfilled(<<>>),
     Fulfilled(<<Kline(1, "2")>>),
     Fulfilled(Klines("1", "2", "2")),
     Fulfilled(<<Kline(1, "a"), Kline(2, "2")>>),
     FulfilledWithObject,
     Rejected(AxiosError(HttpResponse(503, "Service unavailable"), "ERR_BAD_RESPONSE",
                         "Request failed with status code 503")),
     Rejected(AxiosError(NoResponse, "ECONNABORTED", "timeout of 10000ms exceeded"))}

InitOutcomes ==
    /\ fn \in AnalysisTools \cup {"compare_symbols"}
    /\ pc = "ready"
    /\ arg \in IF fn = "compare_symbols"
                THEN [symbols : [1..2 -> Symbols], metric : Metrics]
                ELSE AnalysisArgs(fn)
    /\ env = [build |-> "enhanced", apiKey |-> [set |-> FALSE, value |-> <<>>]]
    /\ exchange \in IF fn = "compare_symbols"
                     THEN [Range(arg.symbols) -> OutcomeAnswers]
                     ELSE OutcomeAnswers
    /\ levels = None
    /\ clustered = None
    /\ returns = None
    /\ ret = None
    /\ pending = {}
    /\ symbolData = None
    /\ overtaken = FALSE
    /\ candles = None
    /\ requests = <<>>
    /\ first = None
    /\ proc = None

NextOutcomes ==
    \/ NextAnalysis
    \/ NextCompare
    \/ AnalysisMalformed
    \/ \E i \in 1..MaxSymbols : FetchMalformed(i)

\* the handler has not answered yet: it is about to send, or it awaits
\* requests, each of which settles (the axios instance has a timeout)
HandlerCanStep == pc \in {"ready", "awaiting", "fetching"}

\* weak fairness of NextOutcomes for a handler that has not answered: the
\* event loop runs every continuation that is ready.  This is
\* WF_vars(NextOutcomes) with the enabling condition written as the state
\* predicate HandlerCanStep.
HandlerFairness == []<>(~HandlerCanStep) \/ []<><<NextOutcomes>>_vars

SpecOutcomes == InitOutcomes /\ [][NextOutcomes]_vars /\ HandlerFairness

\* a success payload or an isError payload
IsResponse(r) == r # None /\ r.isError \in BOOLEAN

\* C22: for every outcome of the fetch, calculate_indicators, analyze_market
\* and compare_symbols end with one response, a success or an isError
\* payload, which nothing replaces afterwards; no exception leaves a handler.
C22_AlwaysOneResponse ==
    /\ [](pc # "escaped")
    /\ [](pc = "done" => IsResponse(ret))
    /\ [](pc # "done" => ret = None)
    /\ [][pc = "done" => (pc' = "done" /\ ret' = ret)]_vars
    /\ <>(pc = "done")

\* a handler that met a body that is no array has answered isError
C22_Witness ==
    /\ fn \in AnalysisTools
    /\ pc = "done"
    /\ exchange.ok
    /\ ~exchange.array
    /\ ret.isError

----------------------------------------------------------------------------
(* Claims about compare_symbols, checked under SpecCompare *)

CompareSucceeded == fn = "compare_symbols" /\ pc = "done" /\ ~ret.isError

\* the Sharpe ratio of a requested symbol, from the candles the exchange holds
SharpeOf(symbol) ==
    calculatePriceStats(klineToOHLCV(exchange[symbol].data)).sharpeRatio

\* x > y as JavaScript compares two numbers
SurdGt(x, y) == x.k # "nan" /\ y.k # "nan" /\ SurdDiffSign(x, y) > 0

IsPermutationOf(seq, S) ==
    /\ Len(seq) = Cardinality(S)
    /\ Range(seq) = S

\* C3: for metric 'performance' the ranking is a permutation of the distinct
\* requested symbols in which, of any two symbols, the one with the strictly
\* higher Sharpe ratio comes first.
C3_RankingBySharpe ==
    (CompareSucceeded /\ arg.metric = "performance") =>
        /\ ret.ranked
        /\ IsPermutationOf(ret.ranking, Range(arg.symbols))
        /\ \A i, j \in 1..Len(ret.ranking) :
            SurdGt(SharpeOf(ret.ranking[i]), SharpeOf(ret.ranking[j])) => i < j

\* the distinct requested symbols in the order of their first request
RECURSIVE FirstOccurrences(_, _)
FirstOccurrences(symbols, i) ==
    IF i > Len(symbols) THEN <<>>
    ELSE IF \E j \in 1..(i - 1) : symbols[j] = symbols[i]
         THEN FirstOccurrences(symbols, i + 1)
         ELSE <<symbols[i]>> \o FirstOccurrences(symbols, i + 1)

\* the response the request determines, whatever the order of the fetches:
\* one record per distinct symbol, made from that symbol's candles alone
ExpectedResponse ==
    LET keys == FirstOccurrences(arg.symbols, 1)
        entries == [i \in 1..Len(keys) |->
                      [symbol |-> keys[i],
                       rec |-> SymbolRecord(arg.metric,
                                            klineToOHLCV(exchange[keys[i]].data))]]
    IN  [isError |-> FALSE,
         metric |-> arg.metric,
         symbols |-> [i \in 1..Len(keys) |->
                        [symbol |-> keys[i],
                         rec |-> JsonRecord(arg.metric, entries[i].rec)]],
         ranked |-> arg.metric = "performance",
         ranking |-> IF arg.metric = "performance" THEN Ranking(entries) ELSE <<>>]

\* C4: the fetches settle in any order; every settled slot holds the symbol of
\* its own request with the candles of that symbol, and the final mapping and
\* ranking are the ones the request and the exchange data determine, the same
\* for every order of completion.
C4_OrderIndependent ==
    /\ (fn = "compare_symbols" /\ pc # "ready") =>
        \A i \in 1..Len(arg.symbols) :
            symbolData[i] # None =>
                /\ i \notin pending
                /\ symbolData[i].symbol = arg.symbols[i]
                /\ symbolData[i].ohlcv = klineToOHLCV(exchange[arg.symbols[i]].data)
    /\ CompareSucceeded => ret = ExpectedResponse

\* three different symbols ranked after a later request overtook an earlier one
C4_Witness ==
    /\ CompareSucceeded
    /\ overtaken
    /\ arg.metric = "performance"
    /\ Cardinality(Range(arg.symbols)) = 3
    /\ ret.ranking # arg.symbols
    /\ \E s, t \in Range(arg.symbols) : exchange[s] # exchange[t]

\* C26: when the fetch of any requested symbol fails, compare_symbols answers
\* with one isError response that holds the failure text and nothing else: no
\* per-symbol record and no ranking, however many other fetches succeeded and
\* in whatever order the fetches settled.
C26_AllOrNothing ==
    (fn = "compare_symbols" /\ pc = "done"
        /\ \E i \in 1..Len(arg.symbols) : ~exchange[arg.symbols[i]].ok) =>
        /\ ret.isError
        /\ DOMAIN ret = {"isError", "text"}
        /\ ret.text[1] = "Failed to compare symbols: "
        /\ Len(ret.text) = 2

\* the last of three fetches failed after the other two had brought candles,
\* the second before the first
C26_Witness ==
    /\ fn = "compare_symbols"
    /\ pc = "done"
    /\ ret.isError
    /\ overtaken
    /\ Len(arg.symbols) = 3
    /\ symbolData[1] # None
    /\ symbolData[2] # None
    /\ symbolData[3] = None
    /\ ~exchange[arg.symbols[3]].ok

\* the candles the exchange holds for a symbol, normalised
OwnCandles(symbol) == klineToOHLCV(exchange[symbol].data)

----------------------------------------------------------------------------
(* The ticker tools: get_24hr_ticker, get_trading_day_ticker, get_price,
   get_book_ticker and get_rolling_window_ticker *)

TickerTools ==
    {"get_24hr_ticker", "get_trading_day_ticker", "get_price", "get_book_ticker",
     "get_rolling_window_ticker"}

TickerPath(tool) ==
    CASE tool = "get_24hr_ticker" -> "/api/v3/ticker/24hr"
      [] tool = "get_trading_day_ticker" -> "/api/v3/ticker/tradingDay"
      [] tool = "get_price" -> "/api/v3/ticker/price"
      [] tool = "get_book_ticker" -> "/api/v3/ticker/bookTicker"
      [] tool = "get_rolling_window_ticker" -> "/api/v3/ticker"

TickerFailurePrefix(build, tool) ==
    CASE tool = "get_24hr_ticker" ->
            IF build = "original" THEN "Failed to get 24hr price statistics: "
            ELSE "Failed to get 24hr ticker: "
      [] tool = "get_trading_day_ticker" -> "Failed to get trading day ticker: "
      [] tool = "get_price" -> "Failed to get price ticker: "
      [] tool = "get_book_ticker" -> "Failed to get book ticker: "
      [] tool = "get_rolling_window_ticker" -> "Failed to get rolling window ticker: "

UpperCase ==
    {"A", "B", "C", "D", "E", "F", "G", "H", "I", "J", "K", "L", "M",
     "N", "O", "P", "Q", "R", "S", "T", "U", "V", "W", "X", "Y", "Z"}

\* symbolSchema: /^[A-Z]{2,20}$/ on a string given by its characters
symbolSchema(text) ==
    /\ Len(text) >= 2
    /\ Len(text) <= 20
    /\ \A i \in 1..Len(text) : text[i] \in UpperCase

\* an optional argument: supplied or not, and its value when supplied
Supplied(value) == [set |-> TRUE, value |-> value]

NotSupplied == [set |-> FALSE, value |-> <<>>]

\* the options a tool declares besides symbol and symbols; zod strips the
\* arguments the schema does not declare
TickerOptions(build, tool) ==
    CASE tool = "get_24hr_ticker" -> IF build = "original" THEN {} ELSE {"type"}
      [] tool = "get_trading_day_ticker" ->
            IF build = "original" THEN {"timeZone"} ELSE {"timeZone", "type"}
      [] tool = "get_price" -> {}
      [] tool = "get_book_ticker" -> {}
      [] tool = "get_rolling_window_ticker" -> {"windowSize", "type"}

\* the zod schema of a ticker tool: symbol and every element of symbols match
\* symbolSchema (the options explored are values their enums accept)
TickerSchemaValid(args) ==
    /\ args.symbol.set => symbolSchema(args.symbol.value)
    /\ args.symbols.set =>
        \A i \in 1..Len(args.symbols.value) : symbolSchema(args.symbols.value[i])

\* a string is truthy unless empty, an array always
TruthyString(x) == x.set /\ x.value # <<>>

TruthyArray(x) == x.set

\* variant of BothGiven: the handler does not look at the two arguments
BothGivenUnchecked(args) == FALSE

\* if (args.symbol && args.symbols) throw
BothGiven(args) == TruthyString(args.symbol) /\ TruthyArray(args.symbols)

RECURSIVE JoinQuoted(_, _)
JoinQuoted(array, i) ==
    IF i > Len(array) THEN <<>>
    ELSE (IF i > 1 THEN <<",">> ELSE <<>>) \o <<"\"">> \o array[i] \o <<"\"">>
            \o JoinQuoted(array, i + 1)

\* JSON.stringify of an array of strings of capital letters, by characters
StringifySymbols(array) == <<"[">> \o JoinQuoted(array, 1) \o <<"]">>

\* the option a build sends when the argument is falsy: the enhanced build
\* substitutes a default, the original leaves the parameter out
OptionDefault(name) ==
    CASE name = "type" -> "FULL"
      [] name = "timeZone" -> "UTC"
      [] name = "windowSize" -> "1d"

Option(build, args, name) ==
    IF args[name] # "" THEN name :> args[name]
    ELSE IF build = "enhanced" THEN name :> OptionDefault(name)
    ELSE <<>>

RECURSIVE Options(_, _, _)
Options(build, args, names) ==
    IF names = {} THEN <<>>
    ELSE LET name == CHOOSE n \in names : TRUE
         IN  Option(build, args, name) @@ Options(build, args, names \ {name})

\* the query parameters of the request, by name
TickerParams(build, tool, args) ==
    (IF TruthyString(args.symbol) THEN "symbol" :> args.symbol.value
     ELSE IF TruthyArray(args.symbols)
     THEN "symbols" :> StringifySymbols(args.symbols.value)
     ELSE <<>>)
        @@ Options(build, args, TickerOptions(build, tool))

TickerRequest(build, tool, args) ==
    [path |-> TickerPath(tool), params |-> TickerParams(build, tool, args), headers |-> {}]

TickerFailure(build, tool, error) ==
    [isError |-> TRUE, text |-> <<TickerFailurePrefix(build, tool), sanitizeError(error)>>]

BTC == <<"B", "T", "C", "U", "S", "D", "T">>

ETH == <<"E", "T", "H", "U", "S", "D", "T">>

\* symbol: not supplied, two symbols, and strings the schema rejects
\* (lower case, one letter, empty)
TickerSymbolArgs ==
    {NotSupplied, Supplied(BTC), Supplied(ETH), Supplied(<<"b", "t", "c">>),
     Supplied(<<"B">>), Supplied(<<>>)}

\* symbols: not supplied, empty, one and two symbols, and an array holding a
\* string the schema rejects
TickerSymbolsArgs ==
    {NotSupplied, Supplied(<<>>), Supplied(<<BTC>>), Supplied(<<BTC, ETH>>),
     Supplied(<<BTC, <<"e">> >>)}

\* "" is an option that was not supplied
TickerArgs(build, tool) ==
    [symbol : TickerSymbolArgs,
     symbols : TickerSymbolsArgs,
     type : IF "type" \in TickerOptions(build, tool) THEN {"", "MINI"} ELSE {""},
     timeZone : IF "timeZone" \in TickerOptions(build, tool) THEN {"", "8"} ELSE {""},
     windowSize : IF "windowSize" \in TickerOptions(build, tool) THEN {"", "7d"} ELSE {""}]

InitTickers ==
    /\ fn \in TickerTools
    /\ pc = "ready"
    /\ env \in [build : Builds, apiKey : {[set |-> FALSE, value |-> <<>>]}]
    /\ arg \in TickerArgs(env.build, fn)
    /\ exchange \in {Fulfilled(<<"payload">>),
                     Rejected(AxiosError(HttpResponse(400, "body A"), "ERR_BAD_REQUEST",
                                         "message A"))}
    /\ levels = None
    /\ clustered = None
    /\ returns = None
    /\ ret = None
    /\ pending = {}
    /\ symbolData = None
    /\ overtaken = FALSE
    /\ candles = None
    /\ requests = <<>>
    /\ first = None
    /\ proc = None

\* the SDK answers arguments the schema rejects; the handler does not run
TickerSchemaReject ==
    /\ fn \in TickerTools
    /\ pc = "ready"
    /\ ~TickerSchemaValid(arg)
    /\ ret' = InvalidArguments
    /\ pc' = "done"
    /\ UNCHANGED <<fn, arg, levels, clustered, returns, exchange, pending, symbolData,
                   overtaken, candles, requests, env, first, proc>>

\* both arguments: the handler throws and its catch block answers
TickerThrow ==
    /\ fn \in TickerTools
    /\ pc = "ready"
    /\ TickerSchemaValid(arg)
    /\ BothGiven(arg)
    /\ ret' = TickerFailure(env.build, fn,
                            Error("Provide either symbol or symbols, not both"))
    /\ pc' = "done"
    /\ UNCHANGED <<fn, arg, levels, clustered, returns, exchange, pending, symbolData,
                   overtaken, candles, requests, env, first, proc>>

TickerSend ==
    /\ fn \in TickerTools
    /\ pc = "ready"
    /\ TickerSchemaValid(arg)
    /\ ~BothGiven(arg)
    /\ requests' = Append(requests, TickerRequest(env.build, fn, arg))
    /\ pc' = "awaiting"
    /\ UNCHANGED <<fn, arg, levels, clustered, returns, ret, exchange, pending, symbolData,
                   overtaken, candles, env, first, proc>>

TickerResolve ==
    /\ fn \in TickerTools
    /\ pc = "awaiting"
    /\ exchange.ok
    /\ ret' = ToolSuccess(exchange.data)
    /\ pc' = "done"
    /\ UNCHANGED <<fn, arg, levels, clustered, returns, exchange, pending, symbolData,
                   overtaken, candles, requests, env, first, proc>>

TickerReject ==
    /\ fn \in TickerTools
    /\ pc = "awaiting"
    /\ ~exchange.ok
    /\ ret' = TickerFailure(env.build, fn, exchange.error)
    /\ pc' = "done"
    /\ UNCHANGED <<fn, arg, levels, clustered, returns, exchange, pending, symbolData,
                   overtaken, candles, requests, env, first, proc>>

NextTickers ==
    TickerSchemaReject \/ TickerThrow \/ TickerSend \/ TickerResolve \/ TickerReject

SpecTickers == InitTickers /\ [][NextTickers]_vars

----------------------------------------------------------------------------
(* Claims about the ticker tools, checked under SpecTickers *)

\* the names of the parameters of the requests sent so far
SentNames == UNION {DOMAIN requests[i].params : i \in 1..Len(requests)}

\* C27: a ticker tool invoked with both symbol and symbols answers an
\* isError response and sends no request, at any time; invoked with exactly
\* one of the two, its one request carries that argument (symbol as given,
\* symbols as its JSON text), not the other, and besides it only the options
\* the tool declares (type, timeZone, windowSize).
C27_SymbolOrSymbols ==
    /\ (arg.symbol.set /\ arg.symbols.set) =>
        /\ requests = <<>>
        /\ pc # "awaiting"
        /\ pc = "done" => ret.isError
    /\ (arg.symbol.set /\ ~arg.symbols.set /\ requests # <<>>) =>
        /\ Len(requests) = 1
        /\ "symbols" \notin SentNames
        /\ "symbol" \in SentNames
        /\ requests[1].params["symbol"] = arg.symbol.value
        /\ DOMAIN requests[1].params \subseteq {"symbol"} \cup TickerOptions(env.build, fn)
    /\ (arg.symbols.set /\ ~arg.symbol.set /\ requests # <<>>) =>
        /\ Len(requests) = 1
        /\ "symbol" \notin SentNames
        /\ "symbols" \in SentNames
        /\ requests[1].params["symbols"] = StringifySymbols(arg.symbols.value)
        /\ DOMAIN requests[1].params \subseteq {"symbols"} \cup TickerOptions(env.build, fn)
    /\ (pc = "done" /\ TickerSchemaValid(arg) /\ arg.symbol.set # arg.symbols.set) =>
        requests # <<>>

\* get_price answered both arguments with its error and sent nothing
C27_Witness ==
    /\ fn = "get_price"
    /\ pc = "done"
    /\ arg.symbol = Supplied(BTC)
    /\ arg.symbols = Supplied(<<BTC, ETH>>)
    /\ ret = [isError |-> TRUE,
              text |-> <<"Failed to get price ticker: ",
                         "An error occurred while fetching data.">>]
    /\ requests = <<>>

\* the enhanced get_24hr_ticker sent symbols alone of the two, next to the
\* type it always sends
C27_WitnessOne ==
    /\ fn = "get_24hr_ticker"
    /\ env.build = "enhanced"
    /\ pc = "done"
    /\ ~ret.isError
    /\ DOMAIN requests[1].params = {"symbols", "type"}
    /\ requests[1].params["symbols"] =
        <<"[", "\"", "B", "T", "C", "U", "S", "D", "T", "\"", ",",
          "\"", "E", "T", "H", "U", "S", "D", "T", "\"", "]">>

----------------------------------------------------------------------------
(* main, the signal listeners and handleError *)

MaxSignals == 3

Signals == {"SIGINT", "SIGTERM"}

\* proc.exit while the process runs
Running == -1

\* the exit status of a process a signal terminated (no listener registered)
KilledBy(signal) == IF signal = "SIGINT" THEN 130 ELSE 143

\* console.log of main after the listeners are registered
StartupLog(environment) ==
    IF environment.production THEN <<>>
    ELSE IF environment.build = "original" THEN <<"MCP service has started">>
    ELSE <<"Binance MCP Enhanced service has started",
           IF environment.testnet THEN "Testnet mode: ENABLED"
           ELSE "Testnet mode: DISABLED">>

\* node starts main(): nothing is registered yet
InitMain ==
    /\ fn = "main"
    /\ pc = "start"
    /\ env \in [build : Builds, production : BOOLEAN, testnet : BOOLEAN]
    /\ proc = [transport |-> "none",   \* "none", "new", "started", "closing", "closed"
               listening |-> FALSE,    \* cleanup listens to SIGINT and SIGTERM
               signals |-> <<>>,       \* the signals delivered, in order
               cleanups |-> <<>>,      \* the calls of cleanup, each at its await
               out |-> <<>>,           \* console.log
               exit |-> Running]
    /\ arg = None
    /\ levels = None
    /\ clustered = None
    /\ returns = None
    /\ ret = None
    /\ exchange = None
    /\ pending = {}
    /\ symbolData = None
    /\ overtaken = FALSE
    /\ candles = None
    /\ requests = <<>>
    /\ first = None

\* new McpServer, the registration of the tools and new StdioServerTransport
\* succeed; main calls server.connect and awaits it
MainConnect ==
    /\ fn = "main"
    /\ pc = "start"
    /\ proc.exit = Running
    /\ pc' = "connecting"
    /\ proc' = [proc EXCEPT !.transport = "new"]
    /\ UNCHANGED <<fn, arg, levels, clustered, returns, ret, exchange, pending, symbolData,
                   overtaken, candles, requests, env, first>>

\* process.exit(1) of handleError
handleError(process) == [process EXCEPT !.exit = 1]

\* a statement of main before the await throws: the promise of main rejects
\* and handleError runs
MainThrows ==
    /\ fn = "main"
    /\ pc = "start"
    /\ proc.exit = Running
    /\ pc' = "failed"
    /\ proc' = handleError(proc)
    /\ UNCHANGED <<fn, arg, levels, clustered, returns, ret, exchange, pending, symbolData,
                   overtaken, candles, requests, env, first>>

\* server.connect rejects: the promise of main rejects and handleError runs
ConnectRejects ==
    /\ fn = "main"
    /\ pc = "connecting"
    /\ proc.exit = Running
    /\ pc' = "failed"
    /\ proc' = handleError(proc)
    /\ UNCHANGED <<fn, arg, levels, clustered, returns, ret, exchange, pending, symbolData,
                   overtaken, candles, requests, env, first>>

\* server.connect fulfils; main resumes in the same turn, registers cleanup
\* for both signals, logs and returns
ConnectFulfils ==
    /\ fn = "main"
    /\ pc = "connecting"
    /\ proc.exit = Running
    /\ pc' = "serving"
    /\ proc' = [proc EXCEPT !.transport = "started",
                            !.listening = TRUE,
                            !.out = StartupLog(env)]
    /\ UNCHANGED <<fn, arg, levels, clustered, returns, ret, exchange, pending, symbolData,
                   overtaken, candles, requests, env, first>>

\* a signal with no listener: node terminates the process
SignalUnheard(signal) ==
    /\ fn = "main"
    /\ proc.exit = Running
    /\ ~proc.listening
    /\ Len(proc.signals) < MaxSignals
    /\ proc' = [proc EXCEPT !.signals = Append(@, signal), !.exit = KilledBy(signal)]
    /\ UNCHANGED <<fn, pc, arg, levels, clustered, returns, ret, exchange, pending,
                   symbolData, overtaken, candles, requests, env, first>>

\* variant of cleanup: process.exit(0) without awaiting the close
cleanupNotAwaiting(process) ==
    [process EXCEPT !.transport = IF @ = "closed" THEN "closed" ELSE "closing",
                    !.exit = 0]

\* cleanup up to its await: transport.close() is called and its promise awaited
cleanup(process) ==
    [process EXCEPT !.transport = IF @ = "closed" THEN "closed" ELSE "closing",
                    !.cleanups = Append(@, "awaiting")]

\* a signal the listener hears: one more call of cleanup
SignalHeard(signal) ==
    /\ fn = "main"
    /\ proc.exit = Running
    /\ proc.listening
    /\ Len(proc.signals) < MaxSignals
    /\ proc' = cleanup([proc EXCEPT !.signals = Append(@, signal)])
    /\ UNCHANGED <<fn, pc, arg, levels, clustered, returns, ret, exchange, pending,
                   symbolData, overtaken, candles, requests, env, first>>

\* the promise of one transport.close() fulfils: the transport is closed
CloseFulfils(i) ==
    /\ fn = "main"
    /\ proc.exit = Running
    /\ i \in 1..Len(proc.cleanups)
    /\ proc.cleanups[i] = "awaiting"
    /\ proc' = [proc EXCEPT !.transport = "closed", !.cleanups[i] = "resumed"]
    /\ UNCHANGED <<fn, pc, arg, levels, clustered, returns, ret, exchange, pending,
                   symbolData, overtaken, candles, requests, env, first>>

\* a call of cleanup resumes after its await: process.exit(0)
CleanupExits(i) ==
    /\ fn = "main"
    /\ proc.exit = Running
    /\ i \in 1..Len(proc.cleanups)
    /\ proc.cleanups[i] = "resumed"
    /\ proc' = [proc EXCEPT !.exit = 0]
    /\ UNCHANGED <<fn, pc, arg, levels, clustered, returns, ret, exchange, pending,
                   symbolData, overtaken, candles, requests, env, first>>

NextMain ==
    \/ MainConnect
    \/ MainThrows
    \/ ConnectRejects
    \/ ConnectFulfils
    \/ \E signal \in Signals : SignalUnheard(signal)
    \/ \E signal \in Signals : SignalHeard(signal)
    \/ \E i \in 1..MaxSignals : CloseFulfils(i)
    \/ \E i \in 1..MaxSignals : CleanupExits(i)

\* the event loop runs every settled promise and every resumed function
MainFairness ==
    /\ WF_vars(MainConnect \/ MainThrows)
    /\ WF_vars(ConnectRejects \/ ConnectFulfils)
    /\ WF_vars(\E i \in 1..MaxSignals : CloseFulfils(i))
    /\ WF_vars(\E i \in 1..MaxSignals : CleanupExits(i))

SpecMain == InitMain /\ [][NextMain]_vars /\ MainFairness

----------------------------------------------------------------------------
(* Claims about main, checked under SpecMain *)

\* C28: the process exits with code 0 only after main connected and the
\* transport was closed; once main has connected, every signal delivered
\* (also a second one while a cleanup awaits the close) leads to that exit;
\* a main that failed before or during connect has exit code 1 for good.
C28_ShutdownOrdering ==
    /\ [](proc.exit = 0 => (pc = "serving" /\ proc.transport = "closed"))
    /\ [](pc = "failed" => proc.exit = 1)
    /\ [][proc.exit # Running => proc'.exit = proc.exit]_vars
    /\ \A n \in 1..MaxSignals :
        (pc = "serving" /\ Len(proc.signals) >= n) ~> (proc.exit = 0)

\* two signals were delivered before the first close settled, and the
\* process exited with 0 on a closed transport
C28_Witness ==
    /\ pc = "serving"
    /\ proc.signals = <<"SIGINT", "SIGTERM">>
    /\ proc.cleanups = <<"resumed", "awaiting">>
    /\ proc.transport = "closed"
    /\ proc.exit = 0

====
